---- MODULE Spec2Model ----
(***************************************************************************)
(* A model of aeropress, the AWS ECS deployment helper.                    *)
(*                                                                         *)
(* The program is single-threaded: one run is a fixed sequence of local    *)
(* computations and blocking remote (boto3) calls.  The model keeps        *)
(*   - the loaded configuration and the command-line request,              *)
(*   - the position of the run (pc) and the locals of the running          *)
(*     function,                                                           *)
(*   - the remote state the calls read and change,                         *)
(*   - the log of remote calls issued in the current run, each with its    *)
(*     outcome.                                                            *)
(* A string is a sequence of characters (one-character TLA+ strings; a     *)
(* chunk that the program never looks into, such as "service/", stands for *)
(* its characters), so that startswith and split are computed, not assumed.*)
(***************************************************************************)
EXTENDS Naturals, Integers, Sequences, FiniteSets, TLC

VARIABLES
    yaml_dicts,                 \* cli.py: what yaml.load returns for the files under the config path
    image_url,                  \* cli.py: args.deploy_image_url
    names_given,                \* cli.py: FALSE when args.deploy_service_names is None
    subparser_name,             \* cli.py: args.subparser_name
    clean_stale_tasks,          \* cli.py: args.clean_stale_tasks
    clean_stale_log_streams,    \* cli.py: args.clean_stale_log_streams
    task_definition,            \* cli.py: args.task_definition
    task_dict,                  \* cli.py: main's task_dict (register subcommand): <<>> for None, <<t>> for task t
    services,                   \* cli.py: the list _load_config returned
    service_names,              \* cli.py: deploy()'s service_names argument
    selected_services,          \* cli.py: deploy()'s selected_services
    clean_stale,                \* task.py register_all / service.py update_all argument
    pc,                         \* the statement the run is at
    raised,                     \* "none", or the exception that ended the run
    run,                        \* 1 for the first deploy run, 2 for the re-run
    calls,                      \* remote calls issued in this run, in order
    i,                          \* index of the running for-loop over a list
    todo,                       \* elements left of the running for-loop over a set
    defined_log_group_names,    \* log.py handle_logs local
    existing_log_group_names,   \* log.py handle_logs local
    existing_services,          \* service.py _create_missing_services local
    missing_services,           \* service.py _create_missing_services local
    existing_policies,          \* scale.py / alarm.py local
    missing_metrics,            \* metric.py create_metrics local
    existing_metrics,           \* metric.py create_metrics local
    existing_alarms,            \* alarm.py create_scaling_alarms local
    all_task_definitions,       \* task.py clean_stale_tasks local
    service_task_definitions,   \* task.py clean_stale_tasks local
    slept,                      \* task.py clean_stale_tasks local
    rItems,                     \* remote: the items of a listing, in the order listed
    container_instance_ids,     \* log.py _get_failed_container_ids argument
    start,                      \* log.py _get_failed_container_ids local
    end,                        \* log.py _get_failed_container_ids local
    failed_container_ids,       \* log.py _get_failed_container_ids local
    existing_logs,              \* log.py clean_stale_log_streams local
    days_ago,                   \* log.py clean_stale_log_streams argument
    utcnow,                     \* the clock, in hours since the epoch (UTC)
    utcoffset,                  \* the time zone of the host, in hours east of UTC
    rContainerInstances,        \* remote: ids of the container instances of the cluster
    rLogGroups,                 \* remote: CloudWatch log group names
    rTaskDefs,                  \* remote: ACTIVE task definition arns
    rServices,                  \* remote: ECS services
    rTargets,                   \* remote: scalable targets (resource ids)
    rPolicies,                  \* remote: scaling policies
    rMetrics,                   \* remote: CloudWatch metric names
    rAlarms                     \* remote: CloudWatch alarms

vars == <<services, service_names, selected_services, clean_stale, existing_alarms, pc, raised, run, calls, i, todo,
          defined_log_group_names, existing_log_group_names, existing_services,
          missing_services, existing_policies, missing_metrics, existing_metrics,
          all_task_definitions, service_task_definitions, slept,
          rItems, container_instance_ids, start, end,
          yaml_dicts, image_url, names_given,
          subparser_name, clean_stale_tasks, clean_stale_log_streams, task_definition, task_dict,
          failed_container_ids, existing_logs, days_ago, utcnow, utcoffset, rContainerInstances,
          rLogGroups, rTaskDefs, rServices, rTargets, rPolicies, rMetrics, rAlarms>>

locals == <<defined_log_group_names, existing_log_group_names, existing_services,
            missing_services, existing_policies, missing_metrics, existing_metrics>>

cleanLocals == <<all_task_definitions, service_task_definitions, slept>>

batchVars == <<rItems, container_instance_ids, start, end>>

mainVars == <<yaml_dicts, image_url, names_given,
              subparser_name, clean_stale_tasks, clean_stale_log_streams, task_definition, task_dict>>

streamVars == <<failed_container_ids, existing_logs, days_ago, utcnow, utcoffset, rContainerInstances>>

remote == <<rLogGroups, rTaskDefs, rServices, rTargets, rPolicies, rMetrics, rAlarms>>

-----------------------------------------------------------------------------
(* Bounds of the model.                                                    *)

\* longest --service-names list
MaxNames == 2
\* items per page of a paginated listing
PageSize == 2
\* deregister_task_definition calls followed for one task definition
MaxAttempts == 5

-----------------------------------------------------------------------------
(* Strings.                                                                *)

\* str.startswith
StartsWith(s, prefix) ==
    /\ Len(s) >= Len(prefix)
    /\ SubSeq(s, 1, Len(prefix)) = prefix

\* the smallest index of character sep in s, 0 when there is none
IndexOf(s, sep) ==
    IF \E k \in 1..Len(s) : s[k] = sep
    THEN CHOOSE k \in 1..Len(s) : s[k] = sep /\ \A j \in 1..(k - 1) : s[j] # sep
    ELSE 0

RECURSIVE Split(_, _)
\* str.split(sep) for a one-character sep: the list of parts
Split(s, sep) ==
    IF IndexOf(s, sep) = 0
    THEN <<s>>
    ELSE <<SubSeq(s, 1, IndexOf(s, sep) - 1)>>
             \o Split(SubSeq(s, IndexOf(s, sep) + 1, Len(s)), sep)

\* parts[-1]
Last(parts) == parts[Len(parts)]

\* the elements of a list, as a set
Range(seq) == {seq[k] : k \in 1..Len(seq)}

\* a set as a list, in one fixed order
RECURSIVE SetToSeq(_)
SetToSeq(S) ==
    IF S = {} THEN <<>>
    ELSE LET x == CHOOSE y \in S : TRUE IN <<x>> \o SetToSeq(S \ {x})

Min(a, b) == IF a <= b THEN a ELSE b

-----------------------------------------------------------------------------
(* The configuration: what _load_config returns for the YAML files of the  *)
(* config path.  A missing key is the empty string, or a dict with         *)
(* present = FALSE (what dict.get() finds falsy).                          *)

NoneStr == <<>>

\* names of the configuration
NameA == <<"a">>
NameB == <<"b">>
NameZ == <<"z">>
Cluster1 == <<"c", "1">>
Cluster2 == <<"c", "2">>
FamilyA == <<"f", "a">>
FamilyB == <<"f", "b">>
FamilyT == <<"f", "t">>
PolicyUp == <<"u", "p">>
PolicyDown == <<"d", "n">>
MetricA == <<"m", "a">>
EcsPrefix == <<"e", "c", "s">>

\* awslogs-group values: the first is conventional, the last fails validation
GroupEcsA == <<"/", "e", "c", "s", "/", "a">>
GroupEcsB == <<"/", "e", "c", "s", "/", "b">>
GroupEcsAX == <<"/", "e", "c", "s", "/", "a", "/", "x">>
GroupEcsa == <<"/", "e", "c", "s", "a">>
GroupVarA == <<"/", "v", "a", "r", "/", "a">>
GroupOther == <<"/", "o", "/", "e", "c", "s">>
StreamApp == <<"a", "p", "p">>

\* AlarmName values
AlarmEcsA == <<"e", "c", "s", ":", "a">>
AlarmCpuA == <<"c", "p", "u", ":", "a">>
AlarmEcsOld == <<"e", "c", "s", ":", "o">>

\* the image a container definition of the files declares, and the image
\* passed with --image-url
ImageDeclared == <<"repo/app:1">>
ImageSidecar == <<"repo/sidecar:1">>
ImageUrl == <<"repo/app:2">>

NoLogConfiguration == [present |-> FALSE, hasOptions |-> FALSE,
                       group |-> NoneStr, prefix |-> NoneStr]

LogConfiguration(group, prefix) == [present |-> TRUE, hasOptions |-> TRUE,
                                    group |-> group, prefix |-> prefix]

NoScale == [present |-> FALSE, policies |-> <<>>]
NoAlarm == [present |-> FALSE, AlarmName |-> NoneStr, OKActions |-> <<>>, AlarmActions |-> <<>>]
NoMetric == [present |-> FALSE, MetricName |-> NoneStr]

\* service a: two containers, a scale configuration with two policies,
\* and (optionally) an alarm on its metric
ServiceA(log, alarm) ==
    [serviceName |-> NameA, cluster |-> Cluster1, taskDefinition |-> FamilyA,
     task |-> [family |-> FamilyA,
               containerDefinitions |-> <<[name |-> <<"s">>, image |-> ImageSidecar, logConfiguration |-> NoLogConfiguration],
                                          [name |-> <<"w">>, image |-> ImageDeclared, logConfiguration |-> log]>>],
     scale |-> [present |-> TRUE, policies |-> <<PolicyUp, PolicyDown>>],
     alarm |-> alarm,
     metric |-> [present |-> TRUE, MetricName |-> MetricA]]

\* service b: one container, neither scale configuration nor alarm
ServiceB(cluster) ==
    [serviceName |-> NameB, cluster |-> cluster, taskDefinition |-> FamilyB,
     task |-> [family |-> FamilyB,
               containerDefinitions |-> <<[name |-> <<"w">>, image |-> ImageDeclared,
                                           logConfiguration |-> LogConfiguration(GroupEcsB, EcsPrefix)]>>],
     scale |-> NoScale, alarm |-> NoAlarm, metric |-> NoMetric]

\* a definition with a task and no service (run with run-task)
TaskOnly ==
    [serviceName |-> NoneStr, cluster |-> NoneStr, taskDefinition |-> NoneStr,
     task |-> [family |-> FamilyT,
               containerDefinitions |-> <<[name |-> <<"w">>, image |-> ImageDeclared, logConfiguration |-> NoLogConfiguration]>>],
     scale |-> NoScale, alarm |-> NoAlarm, metric |-> NoMetric]

LogChoices ==
    {LogConfiguration(GroupEcsA, EcsPrefix), LogConfiguration(GroupEcsA, StreamApp),
     LogConfiguration(GroupEcsAX, EcsPrefix), LogConfiguration(GroupEcsa, EcsPrefix),
     LogConfiguration(GroupVarA, EcsPrefix)}

AlarmChoices ==
    {NoAlarm,
     [present |-> TRUE, AlarmName |-> AlarmEcsA, OKActions |-> <<PolicyDown>>, AlarmActions |-> <<PolicyUp>>],
     [present |-> TRUE, AlarmName |-> AlarmCpuA, OKActions |-> <<PolicyDown>>, AlarmActions |-> <<PolicyUp>>]}

\* the alarm of service a under the naming convention
AlarmChoiceEcs ==
    [present |-> TRUE, AlarmName |-> AlarmEcsA, OKActions |-> <<PolicyDown>>, AlarmActions |-> <<PolicyUp>>]

Configs ==
    {<<TaskOnly, ServiceA(log, alarm), ServiceB(cluster)>> :
        log \in LogChoices, alarm \in AlarmChoices, cluster \in {Cluster1, Cluster2}}

RequestNames == {NameA, NameB, NameZ}

\* every non-empty list of at most n requested names (argparse nargs='+')
NameLists(n) == UNION {[1..k -> RequestNames] : k \in 1..n}

-----------------------------------------------------------------------------
(* The remote side (boto3 clients).  A call either succeeds and has its    *)
(* effect, or fails with an error and has none.                            *)

\* botocore.exceptions.ClientError codes, and an error that is no ClientError
ClientErrorCodes ==
    {"ThrottlingException", "ObjectNotFoundException", "AccessDeniedException",
     "ResourceAlreadyExistsException", "ServiceNotFoundException"}
OtherErrors == {"EndpointConnectionError"}

\* the failures followed for a call: one ClientError for every call; where the
\* program catches ClientError, also the codes it looks at and an error that
\* is not a ClientError
Failures(op) ==
    CASE op = "deregister_task_definition" ->
             {"ThrottlingException", "AccessDeniedException", "EndpointConnectionError"}
      [] op = "deregister_scalable_target" ->
             {"ObjectNotFoundException", "AccessDeniedException", "EndpointConnectionError"}
      [] OTHER -> {"AccessDeniedException"}

CallRecord(op, arg, res) == [op |-> op, arg |-> arg, res |-> res]

\* one page of a listing: the response to a call passing next_token
\* (0: no token); nextToken 0 is a response without a token
Page(items, next_token) ==
    [items |-> SubSeq(items, next_token + 1, Min(next_token + PageSize, Len(items))),
     nextToken |-> IF next_token + PageSize < Len(items) THEN next_token + PageSize ELSE 0]

\* arn:aws:ecs:<region>:<account>:service/<cluster-name>/<service-name>
ServiceArn(cluster, name) == <<"arn:aws:ecs:service", "/">> \o cluster \o <<"/">> \o name

\* 'service/' + cluster + '/' + serviceName
ResourceId(service_dict) ==
    <<"s", "e", "r", "v", "i", "c", "e", "/">> \o service_dict.cluster \o <<"/">> \o service_dict.serviceName

-----------------------------------------------------------------------------
(* Steps shared by the actions.                                            *)

\* the remote call op(arg) is issued and ends with res
Issue(op, arg, res) == calls' = Append(calls, CallRecord(op, arg, res))

\* the exception e leaves every function of the run: the process ends
Raise(e) ==
    /\ raised' = e
    /\ pc' = "exit"

\* the n calls of a paginated listing, all answered
ListCalls(op, arg, n) == [k \in 1..n |-> CallRecord(op, arg, "ok")]

\* the calls of a paginated listing whose k-th call fails with e
FailedListCalls(op, arg, k, e) ==
    [j \in 1..k |-> CallRecord(op, arg, IF j = k THEN e ELSE "ok")]

-----------------------------------------------------------------------------
(* cli.py                                                                  *)

\* _find_service returning the last definition looked at when none matches
_find_service_LastLooked(service_name, service_list) ==
    LET hits == {k \in 1..Len(service_list) :
                    /\ service_list[k].serviceName # NoneStr
                    /\ service_list[k].serviceName = service_name}
    IN IF hits = {} THEN <<service_list[Len(service_list)]>>
       ELSE <<service_list[CHOOSE k \in hits : \A j \in hits : k <= j]>>

\* _find_service: the first definition named service_name, as a one-element
\* list, or the empty list for {}
_find_service(service_name, service_list) ==
    LET hits == {k \in 1..Len(service_list) :
                    /\ service_list[k].serviceName # NoneStr
                    /\ service_list[k].serviceName = service_name}
    IN IF hits = {} THEN <<>>
       ELSE <<service_list[CHOOSE k \in hits : \A j \in hits : k <= j]>>

\* register_all handling the log groups before the validation
register_all_LogsFirst == <<"handle_logs", "_validate_log_definitions", "_register_task_definitions">>

\* task.register_all: validation, then the log groups, then the registrations
register_all == <<"_validate_log_definitions", "handle_logs", "_register_task_definitions">>

\* update_all with create_scaling_policies called before register_scalable_targets
update_all_PoliciesBeforeTargets ==
    <<"_create_missing_services", "create_scaling_policies", "register_scalable_targets",
      "create_metrics", "create_scaling_alarms", "_update_services">>

\* update_all with _update_services called before create_scaling_alarms
update_all_UpdateBeforeAlarms ==
    <<"_create_missing_services", "register_scalable_targets", "create_scaling_policies",
      "create_metrics", "_update_services", "create_scaling_alarms">>

\* service.update_all: the order of its six calls
update_all ==
    <<"_create_missing_services", "register_scalable_targets", "create_scaling_policies",
      "create_metrics", "create_scaling_alarms", "_update_services">>

\* deploy after the selection: task.register_all(tasks), then
\* service.update_all(filtered_selected_services)
deploy == register_all \o update_all

\* the function called when function stage returns; "return" ends the
\* command: deploy goes through register_all and update_all, the register
\* subcommand through register_all only
After(stage) ==
    LET called == IF subparser_name = "register" THEN register_all ELSE deploy
    IN IF \E k \in 1..(Len(called) - 1) : called[k] = stage
       THEN called[(CHOOSE k \in 1..(Len(called) - 1) : called[k] = stage) + 1]
       ELSE "return"

\* the override reaching the first container of the task only
Override_FirstContainer(definition, url) ==
    IF url = NoneStr THEN definition
    ELSE [definition EXCEPT !.task.containerDefinitions[1].image = url]

\* the override of the container definitions in _load_config: a truthy
\* image_url replaces the image of every container of the task
Override(definition, url) ==
    IF url = NoneStr THEN definition
    ELSE [definition EXCEPT !.task.containerDefinitions =
             [k \in 1..Len(definition.task.containerDefinitions) |->
                 [definition.task.containerDefinitions[k] EXCEPT !.image = url]]]

\* _is_valid_config accepting every non-empty list
_is_valid_config_NonEmpty(service_list) == service_list # <<>>

\* _is_valid_config: some definition, and every taskDefinition that is
\* given names the family of the definition's own task
_is_valid_config(service_list) ==
    /\ service_list # <<>>
    /\ \A k \in 1..Len(service_list) :
          service_list[k].taskDefinition # NoneStr =>
              service_list[k].taskDefinition = service_list[k].task.family

\* main: services = _load_config(config_path, ...), then
\* deploy(services, args.deploy_service_names) in the deploy subcommand, the
\* search for the task in the register subcommand, and
\* log.clean_stale_log_streams(services, args.log_stream_days_ago) in the
\* clean subcommand (no image url is passed there)
LoadConfig ==
    /\ pc = "_load_config"
    /\ LET url == IF subparser_name = "clean" THEN NoneStr ELSE image_url
           loaded == [k \in 1..Len(yaml_dicts) |-> Override(yaml_dicts[k], url)]
       IN IF _is_valid_config(loaded)
          THEN /\ services' = loaded
               /\ pc' = CASE subparser_name = "deploy" -> "deploy"
                           [] subparser_name = "register" -> "register"
                           [] subparser_name = "clean" -> "_get_existing_logs"
               /\ UNCHANGED raised
          ELSE /\ Raise("AeropressException")
               /\ UNCHANGED services
    /\ UNCHANGED <<service_names, batchVars, mainVars, streamVars, clean_stale, existing_alarms,
                   selected_services, run, calls, i, todo, locals, cleanLocals, remote>>

\* register_all and update_all called with clean_stale set
clean_stale_default_True == TRUE

\* def register_all(tasks, clean_stale=False), def update_all(services,
\* clean_stale=False): the value deploy's calls leave to the default
clean_stale_default == FALSE

\* deploy, up to the call of task.register_all: the selection loop
Deploy ==
    /\ pc = "deploy"
    /\ LET found == [k \in 1..Len(service_names) |-> _find_service(service_names[k], services)]
       IN IF ~names_given
          THEN \* for service_name in None
               /\ Raise("TypeError")
               /\ UNCHANGED <<selected_services, clean_stale>>
          ELSE IF \E k \in 1..Len(service_names) : found[k] = <<>>
          THEN /\ Raise("AeropressException")
               /\ UNCHANGED <<selected_services, clean_stale>>
          ELSE /\ selected_services' = [k \in 1..Len(service_names) |-> found[k][1]]
               /\ clean_stale' = clean_stale_default
               /\ pc' = deploy[1]
               /\ UNCHANGED raised
    /\ UNCHANGED <<services, service_names, batchVars, mainVars, streamVars, existing_alarms, run, calls, i, todo, locals, cleanLocals, remote>>

\* tasks = [selected_service['task'] for selected_service in selected_services]
\* in deploy; [task_dict] in the register subcommand of main
tasks ==
    IF subparser_name = "register" THEN task_dict
    ELSE [k \in 1..Len(selected_services) |-> selected_services[k].task]

\* filtered_selected_services = [sd for sd in selected_services if sd.get('serviceName')]
filtered_selected_services == SelectSeq(selected_services, LAMBDA sd : sd.serviceName # NoneStr)

-----------------------------------------------------------------------------
(* aws/task.py and aws/log.py: register_all                                *)

\* the container definitions of a list of tasks, in loop order
RECURSIVE Containers(_)
Containers(task_list) ==
    IF task_list = <<>> THEN <<>>
    ELSE Head(task_list).containerDefinitions \o Containers(Tail(task_list))

\* the checks _validate_log_definitions makes on one container definition
ValidLogDefinition(container_definition) ==
    \/ ~container_definition.logConfiguration.present
    \/ ~container_definition.logConfiguration.hasOptions
    \/ /\ StartsWith(container_definition.logConfiguration.group, <<"/", "e", "c", "s">>)
       /\ container_definition.logConfiguration.prefix = EcsPrefix

\* _validate_log_definitions returns (TRUE) or raises AeropressException (FALSE)
_validate_log_definitions(task_list) ==
    \A k \in 1..Len(Containers(task_list)) : ValidLogDefinition(Containers(task_list)[k])

\* register_all: the call of _validate_log_definitions
ValidateLogDefinitions ==
    /\ pc = "_validate_log_definitions"
    /\ IF _validate_log_definitions(tasks)
       THEN /\ pc' = After("_validate_log_definitions")
            /\ UNCHANGED raised
       ELSE Raise("AeropressException")
    /\ UNCHANGED <<services, service_names, batchVars, mainVars, streamVars, clean_stale, existing_alarms, selected_services, run, calls, i, todo,
                   locals, cleanLocals, remote>>

_get_defined_log_group_names(task_list) ==
    {Containers(task_list)[k].logConfiguration.group :
        k \in {j \in 1..Len(Containers(task_list)) :
                  /\ Containers(task_list)[j].logConfiguration.present
                  /\ Containers(task_list)[j].logConfiguration.hasOptions}}

\* the filter without the test of the second part
IsEcsLogGroup_ThreeParts(name) == Len(Split(name, "/")) = 3

\* the filter of _get_existing_log_group_names on one log group name
IsEcsLogGroup(name) ==
    /\ Len(Split(name, "/")) = 3
    /\ Split(name, "/")[2] = EcsPrefix

\* _get_existing_log_group_names, from the call passing next_token on:
\* the names kept and the number of describe_log_groups calls
RECURSIVE _get_existing_log_group_names(_, _, _, _)
_get_existing_log_group_names(groups, next_token, acc, ncalls) ==
    LET resp == Page(groups, next_token)
        kept == acc \cup {name \in Range(resp.items) : IsEcsLogGroup(name)}
    IN IF resp.nextToken = 0
       THEN [names |-> kept, ncalls |-> ncalls + 1]
       ELSE _get_existing_log_group_names(groups, resp.nextToken, kept, ncalls + 1)

\* the difference taken the other way round
missing_log_group_names_Swapped(defined, existing) == existing \ defined

\* missing_log_group_names = defined_log_group_names.difference(existing_log_group_names)
missing_log_group_names(defined, existing) == defined \ existing

\* the stale names without the difference: every existing name
stale_log_group_names_AllExisting(defined, existing) == existing

\* stale_log_group_names = existing_log_group_names.difference(defined_log_group_names)
stale_log_group_names(defined, existing) == existing \ defined

\* handle_logs, up to the creation loop: the defined and the existing names
HandleLogs ==
    /\ pc = "handle_logs"
    /\ LET defined == _get_defined_log_group_names(tasks)
           listing == _get_existing_log_group_names(SetToSeq(rLogGroups), 0, {}, 0)
       IN \/ /\ calls' = calls \o ListCalls("describe_log_groups", <<>>, listing.ncalls)
             /\ defined_log_group_names' = defined
             /\ existing_log_group_names' = listing.names
             /\ todo' = missing_log_group_names(defined, listing.names)
             /\ pc' = "_create_missing_log_groups"
             /\ UNCHANGED raised
          \/ \E k \in 1..listing.ncalls, e \in Failures("describe_log_groups") :
                /\ calls' = calls \o FailedListCalls("describe_log_groups", <<>>, k, e)
                /\ Raise(e)
                /\ UNCHANGED <<defined_log_group_names, existing_log_group_names, todo>>
    /\ UNCHANGED <<services, service_names, batchVars, mainVars, streamVars, clean_stale, existing_alarms, selected_services, run, i,
                   existing_services, missing_services, existing_policies, missing_metrics,
                   existing_metrics,
                   cleanLocals, remote>>

\* what the remote answers to create_log_group: a log group that exists
\* cannot be created again
CreateLogGroupAnswers(name) ==
    (IF name \in rLogGroups THEN {"ResourceAlreadyExistsException"} ELSE {"ok"})
        \cup Failures("create_log_group")

\* _create_missing_log_groups: one create_log_group call per missing name,
\* in the iteration order of the set
CreateMissingLogGroups ==
    /\ pc = "_create_missing_log_groups"
    /\ IF todo = {}
       THEN /\ pc' = "put_retention_policy"
            /\ todo' = defined_log_group_names
            /\ UNCHANGED <<raised, calls, rLogGroups>>
       ELSE \E name \in todo : \E res \in CreateLogGroupAnswers(name) :
               /\ Issue("create_log_group", name, res)
               /\ IF res = "ok"
                  THEN /\ rLogGroups' = rLogGroups \cup {name}
                       /\ todo' = todo \ {name}
                       /\ UNCHANGED <<pc, raised>>
                  ELSE /\ Raise(res)
                       /\ UNCHANGED <<todo, rLogGroups>>
    /\ UNCHANGED <<services, service_names, batchVars, mainVars, streamVars, clean_stale, existing_alarms, selected_services, run, i, locals, cleanLocals,
                   rTaskDefs, rServices, rTargets, rPolicies, rMetrics, rAlarms>>

\* retention_days = 7  # TODO: Should be configurable
retention_days == 7

\* the arguments of put_retention_policy for a log group
RetentionPolicy(log_group_name) ==
    [logGroupName |-> log_group_name, retentionInDays |-> retention_days]

\* handle_logs: retention of 7 days on every defined group; then the stale
\* groups are cleaned if clean_stale_log_groups is set
PutRetentionPolicy ==
    /\ pc = "put_retention_policy"
    /\ IF todo = {}
       THEN /\ i' = 1
            /\ IF clean_stale
               THEN /\ pc' = "_clean_stale_log_groups"
                    /\ todo' = stale_log_group_names(defined_log_group_names,
                                                     existing_log_group_names)
               ELSE /\ pc' = After("handle_logs")
                    /\ UNCHANGED todo
            /\ UNCHANGED <<raised, calls>>
       ELSE \E name \in todo :
               \/ /\ Issue("put_retention_policy", RetentionPolicy(name), "ok")
                  /\ todo' = todo \ {name}
                  /\ UNCHANGED <<pc, raised, i>>
               \/ \E e \in Failures("put_retention_policy") :
                     /\ Issue("put_retention_policy", RetentionPolicy(name), e)
                     /\ Raise(e)
                     /\ UNCHANGED <<todo, i>>
    /\ UNCHANGED <<services, service_names, batchVars, mainVars, streamVars, clean_stale, existing_alarms, selected_services, run, locals, cleanLocals, remote>>

\* _clean_stale_log_groups: one delete_log_group call per stale name, in the
\* iteration order of the set
CleanStaleLogGroups ==
    /\ pc = "_clean_stale_log_groups"
    /\ IF todo = {}
       THEN /\ pc' = After("handle_logs")
            /\ UNCHANGED <<raised, calls, todo, rLogGroups>>
       ELSE \E name \in todo :
               \/ /\ Issue("delete_log_group", name, "ok")
                  /\ rLogGroups' = rLogGroups \ {name}
                  /\ todo' = todo \ {name}
                  /\ UNCHANGED <<pc, raised>>
               \/ \E e \in Failures("delete_log_group") :
                     /\ Issue("delete_log_group", name, e)
                     /\ Raise(e)
                     /\ UNCHANGED <<todo, rLogGroups>>
    /\ UNCHANGED <<services, service_names, batchVars, mainVars, streamVars, clean_stale, existing_alarms, selected_services, run, i,
                   locals, cleanLocals, rTaskDefs, rServices, rTargets, rPolicies, rMetrics, rAlarms>>

\* the registered revisions of a family
Revisions(family) == {td \in rTaskDefs : td.family = family}

\* the revision the next registration of a family creates
NewRevision(family) == [family |-> family, revision |-> Cardinality(Revisions(family)) + 1]

\* the latest registered revision of a family (what a family name resolves to)
LatestRevision(family) == [family |-> family, revision |-> Cardinality(Revisions(family))]

\* the arguments of register_task_definition for a task
TaskDefinitionRequest(task) ==
    [family |-> task.family,
     containerDefinitions |->
         [k \in 1..Len(task.containerDefinitions) |->
             [name |-> task.containerDefinitions[k].name,
              image |-> task.containerDefinitions[k].image,
              logConfiguration |-> task.containerDefinitions[k].logConfiguration]]]

\* _register_task_definitions: one new revision per task of the list
RegisterTaskDefinitions ==
    /\ pc = "_register_task_definitions"
    /\ IF i > Len(tasks)
       THEN /\ pc' = After("_register_task_definitions")
            /\ i' = 1
            /\ UNCHANGED <<raised, calls, rTaskDefs>>
       ELSE \/ /\ Issue("register_task_definition", TaskDefinitionRequest(tasks[i]), "ok")
               /\ rTaskDefs' = rTaskDefs \cup {NewRevision(tasks[i].family)}
               /\ i' = i + 1
               /\ UNCHANGED <<pc, raised>>
            \/ \E e \in Failures("register_task_definition") :
                  /\ Issue("register_task_definition", TaskDefinitionRequest(tasks[i]), e)
                  /\ Raise(e)
                  /\ UNCHANGED <<i, rTaskDefs>>
    /\ UNCHANGED <<services, service_names, batchVars, mainVars, streamVars, clean_stale, existing_alarms, selected_services, run, todo, locals, cleanLocals,
                   rLogGroups, rServices, rTargets, rPolicies, rMetrics, rAlarms>>

-----------------------------------------------------------------------------
(* aws/service.py: _create_missing_services                                *)

\* the arns list_services returns for a cluster
ServiceArns(cluster) ==
    SetToSeq({ServiceArn(s.cluster, s.serviceName) : s \in {r \in rServices : r.cluster = cluster}})

\* the first part of the arn taken for the service name
ServiceNamesOf_FirstPart(service_arns) ==
    [k \in 1..Len(service_arns) |-> Split(service_arns[k], "/")[1]]

\* [service_arn.split('/')[-1] for service_arn in service_arns]
ServiceNamesOf(service_arns) ==
    [k \in 1..Len(service_arns) |-> Last(Split(service_arns[k], "/"))]

\* the while-loop of _get_existing_services for one cluster, from the call
\* passing next_token on: the names found and the number of calls
RECURSIVE ListServices(_, _, _, _)
ListServices(service_arns, next_token, acc, ncalls) ==
    LET resp == Page(service_arns, next_token)
        found == acc \o ServiceNamesOf(resp.items)
    IN IF resp.nextToken = 0
       THEN [names |-> found, ncalls |-> ncalls + 1]
       ELSE ListServices(service_arns, resp.nextToken, found, ncalls + 1)

\* the for-loop of _get_existing_services over the cluster names left:
\* the names of all these clusters in one list, and the calls made
RECURSIVE GetExistingServices(_, _, _)
GetExistingServices(cluster_names, acc, made) ==
    IF cluster_names = <<>>
    THEN [names |-> acc, calls |-> made]
    ELSE LET listing == ListServices(ServiceArns(Head(cluster_names)), 0, <<>>, 0)
         IN GetExistingServices(Tail(cluster_names), acc \o listing.names,
                made \o ListCalls("list_services", Head(cluster_names), listing.ncalls))

\* _get_existing_services: every cluster the passed services name is listed
_get_existing_services(service_list) ==
    GetExistingServices(SetToSeq({service_list[k].cluster : k \in 1..Len(service_list)}), <<>>, <<>>)

\* missing_services holding every passed service
MissingServices_All(service_list, existing) == service_list

\* missing_services = [s for s in services if s['serviceName'] not in existing_services]
MissingServices(service_list, existing) ==
    SelectSeq(service_list, LAMBDA s : s.serviceName \notin Range(existing))

\* _create_missing_services, up to the creation loop
CreateMissingServices ==
    /\ pc = "_create_missing_services"
    /\ LET listing == _get_existing_services(filtered_selected_services)
       IN \/ /\ calls' = calls \o listing.calls
             /\ existing_services' = listing.names
             /\ missing_services' = MissingServices(filtered_selected_services, listing.names)
             /\ i' = 1
             /\ pc' = "create_service"
             /\ UNCHANGED raised
          \/ \E k \in 1..Len(listing.calls), e \in Failures("list_services") :
                /\ calls' = calls \o [j \in 1..k |->
                                        IF j = k THEN [listing.calls[j] EXCEPT !.res = e]
                                        ELSE listing.calls[j]]
                /\ Raise(e)
                /\ UNCHANGED <<existing_services, missing_services, i>>
    /\ UNCHANGED <<services, service_names, batchVars, mainVars, streamVars, clean_stale, existing_alarms, selected_services, run, todo,
                   defined_log_group_names, existing_log_group_names, existing_policies,
                   missing_metrics, existing_metrics, cleanLocals, remote>>

\* the key of a service on the remote side
ServiceKey(service_dict) == <<service_dict.cluster, service_dict.serviceName>>

\* the creation loop of _create_missing_services
CreateService ==
    /\ pc = "create_service"
    /\ IF i > Len(missing_services)
       THEN /\ pc' = After("_create_missing_services")
            /\ i' = 1
            /\ UNCHANGED <<raised, calls, rServices>>
       ELSE \/ /\ Issue("create_service", ServiceKey(missing_services[i]), "ok")
               /\ rServices' = rServices \cup
                     {[cluster |-> missing_services[i].cluster,
                       serviceName |-> missing_services[i].serviceName,
                       taskDefinition |-> LatestRevision(missing_services[i].taskDefinition)]}
               /\ i' = i + 1
               /\ UNCHANGED <<pc, raised>>
            \/ \E e \in Failures("create_service") :
                  /\ Issue("create_service", ServiceKey(missing_services[i]), e)
                  /\ Raise(e)
                  /\ UNCHANGED <<i, rServices>>
    /\ UNCHANGED <<services, service_names, batchVars, mainVars, streamVars, clean_stale, existing_alarms, selected_services, run, todo, locals, cleanLocals,
                   rLogGroups, rTaskDefs, rTargets, rPolicies, rMetrics, rAlarms>>

-----------------------------------------------------------------------------
(* aws/scale.py                                                            *)

\* what the remote answers to deregister_scalable_target for a resource id
DeregisterAnswers(resource_id) ==
    (IF resource_id \in rTargets THEN {"ok"} ELSE {"ObjectNotFoundException"})
        \cup (Failures("deregister_scalable_target") \ {"ObjectNotFoundException"})

\* _deregister_scalable_target without its except clause
_deregister_scalable_target_Uncaught(res) == res # "ok"

\* _deregister_scalable_target: TRUE when the outcome res of the call leaves
\* the function as an exception (the except clause catches ClientError)
_deregister_scalable_target(res) ==
    /\ res # "ok"
    /\ res \notin ClientErrorCodes

\* register_scalable_targets: the loop over the services
RegisterScalableTargets ==
    /\ pc = "register_scalable_targets"
    /\ IF i > Len(filtered_selected_services)
       THEN /\ pc' = After("register_scalable_targets")
            /\ i' = 1
            /\ UNCHANGED <<raised, calls, rTargets>>
       ELSE LET service_dict == filtered_selected_services[i]
                resource_id == ResourceId(service_dict)
            IN IF service_dict.scale.present
               THEN \/ /\ Issue("register_scalable_target", resource_id, "ok")
                       /\ rTargets' = rTargets \cup {resource_id}
                       /\ i' = i + 1
                       /\ UNCHANGED <<pc, raised>>
                    \/ \E e \in Failures("register_scalable_target") :
                          /\ Issue("register_scalable_target", resource_id, e)
                          /\ Raise(e)
                          /\ UNCHANGED <<i, rTargets>>
               ELSE \E res \in DeregisterAnswers(resource_id) :
                       /\ Issue("deregister_scalable_target", resource_id, res)
                       /\ rTargets' = IF res = "ok" THEN rTargets \ {resource_id} ELSE rTargets
                       /\ IF _deregister_scalable_target(res)
                          THEN /\ Raise(res)
                               /\ UNCHANGED i
                          ELSE /\ i' = i + 1
                               /\ UNCHANGED <<pc, raised>>
    /\ UNCHANGED <<services, service_names, batchVars, mainVars, streamVars, clean_stale, existing_alarms, selected_services, run, todo, locals, cleanLocals,
                   rLogGroups, rTaskDefs, rServices, rPolicies, rMetrics, rAlarms>>

\* get_existing_scaling_policies leaving its loop after the first response
get_existing_scaling_policies_FirstPage(policies, next_token, acc, ncalls) ==
    [policies |-> acc \o Page(policies, next_token).items, ncalls |-> ncalls + 1]

\* get_existing_scaling_policies, from the call passing next_token on
RECURSIVE get_existing_scaling_policies(_, _, _, _)
get_existing_scaling_policies(policies, next_token, acc, ncalls) ==
    LET resp == Page(policies, next_token)
        found == acc \o resp.items
    IN IF resp.nextToken = 0
       THEN [policies |-> found, ncalls |-> ncalls + 1]
       ELSE get_existing_scaling_policies(policies, resp.nextToken, found, ncalls + 1)

\* the policy put_scaling_policy stores
Policy(policy_name, resource_id) ==
    [PolicyName |-> policy_name, ResourceId |-> resource_id,
     PolicyARN |-> <<"arn:aws:autoscaling:scalingPolicy", ":">> \o resource_id
                       \o <<":">> \o policy_name]

\* the put_scaling_policy calls of _create_or_update_all_policies, in loop order
RECURSIVE PolicyPuts(_)
PolicyPuts(service_list) ==
    IF service_list = <<>> THEN <<>>
    ELSE LET service_dict == Head(service_list)
         IN (IF service_dict.scale.present /\ service_dict.scale.policies # <<>>
             THEN [k \in 1..Len(service_dict.scale.policies) |->
                      Policy(service_dict.scale.policies[k], ResourceId(service_dict))]
             ELSE <<>>)
            \o PolicyPuts(Tail(service_list))

\* create_scaling_policies, up to _clean_stale_policies (if clean_stale) or
\* _create_or_update_all_policies
CreateScalingPolicies ==
    /\ pc = "create_scaling_policies"
    /\ LET listing == get_existing_scaling_policies(SetToSeq(rPolicies), 0, <<>>, 0)
       IN \/ /\ calls' = calls \o ListCalls("describe_scaling_policies", <<>>, listing.ncalls)
             /\ existing_policies' = listing.policies
             /\ i' = 1
             /\ pc' = IF clean_stale THEN "_clean_stale_policies"
                      ELSE "_create_or_update_all_policies"
             /\ UNCHANGED raised
          \/ \E k \in 1..listing.ncalls, e \in Failures("describe_scaling_policies") :
                /\ calls' = calls \o FailedListCalls("describe_scaling_policies", <<>>, k, e)
                /\ Raise(e)
                /\ UNCHANGED <<existing_policies, i>>
    /\ UNCHANGED <<services, service_names, batchVars, mainVars, streamVars, clean_stale, existing_alarms, selected_services, run, todo,
                   defined_log_group_names, existing_log_group_names, existing_services,
                   missing_services, missing_metrics, existing_metrics, cleanLocals, remote>>

\* filtered_services = [service_dict for service_dict in services if service_dict.get('scale')]
ScaleServices(service_list) == SelectSeq(service_list, LAMBDA s : s.scale.present)

\* _is_stale_policy comparing the PolicyName only
_is_stale_policy_NameOnly(existing_policy_dict, service_list) ==
    ~\E k \in 1..Len(service_list) :
        \E j \in 1..Len(service_list[k].scale.policies) :
            existing_policy_dict.PolicyName = service_list[k].scale.policies[j]

\* _is_stale_policy: no policy defined for the services has the PolicyName
\* and the ResourceId of the existing policy
_is_stale_policy(existing_policy_dict, service_list) ==
    ~\E k \in 1..Len(service_list) :
        /\ service_list[k].scale.present
        /\ service_list[k].scale.policies # <<>>
        /\ \E j \in 1..Len(service_list[k].scale.policies) :
              /\ existing_policy_dict.PolicyName = service_list[k].scale.policies[j]
              /\ existing_policy_dict.ResourceId = ResourceId(service_list[k])

\* the policies _clean_stale_policies deletes, in loop order
StalePolicies(service_list, policies) ==
    SelectSeq(policies, LAMBDA existing_policy_dict :
                            _is_stale_policy(existing_policy_dict, service_list))

\* the arguments of delete_scaling_policy for an existing policy
PolicyKey(existing_policy_dict) ==
    [PolicyName |-> existing_policy_dict.PolicyName,
     ResourceId |-> existing_policy_dict.ResourceId]

\* _clean_stale_policies: one delete_scaling_policy call per stale policy
CleanStalePolicies ==
    /\ pc = "_clean_stale_policies"
    /\ LET stale == StalePolicies(ScaleServices(filtered_selected_services), existing_policies)
       IN IF i > Len(stale)
          THEN /\ pc' = "_create_or_update_all_policies"
               /\ i' = 1
               /\ UNCHANGED <<raised, calls, rPolicies>>
          ELSE \/ /\ Issue("delete_scaling_policy", PolicyKey(stale[i]), "ok")
                  /\ rPolicies' = {r \in rPolicies : PolicyKey(r) # PolicyKey(stale[i])}
                  /\ i' = i + 1
                  /\ UNCHANGED <<pc, raised>>
               \/ \E e \in Failures("delete_scaling_policy") :
                     /\ Issue("delete_scaling_policy", PolicyKey(stale[i]), e)
                     /\ Raise(e)
                     /\ UNCHANGED <<i, rPolicies>>
    /\ UNCHANGED <<services, service_names, batchVars, mainVars, streamVars, clean_stale, existing_alarms, selected_services, run,
                   todo, locals, cleanLocals,
                   rLogGroups, rTaskDefs, rServices, rTargets, rMetrics, rAlarms>>

\* _create_or_update_all_policies
CreateOrUpdateAllPolicies ==
    /\ pc = "_create_or_update_all_policies"
    /\ LET puts == PolicyPuts(ScaleServices(filtered_selected_services))
       IN IF i > Len(puts)
          THEN /\ pc' = After("create_scaling_policies")
               /\ i' = 1
               /\ UNCHANGED <<raised, calls, rPolicies>>
          ELSE \/ /\ Issue("put_scaling_policy", puts[i], "ok")
                  /\ rPolicies' = rPolicies \cup {puts[i]}
                  /\ i' = i + 1
                  /\ UNCHANGED <<pc, raised>>
               \/ \E e \in Failures("put_scaling_policy") :
                     /\ Issue("put_scaling_policy", puts[i], e)
                     /\ Raise(e)
                     /\ UNCHANGED <<i, rPolicies>>
    /\ UNCHANGED <<services, service_names, batchVars, mainVars, streamVars, clean_stale, existing_alarms, selected_services, run, todo, locals, cleanLocals,
                   rLogGroups, rTaskDefs, rServices, rTargets, rMetrics, rAlarms>>

-----------------------------------------------------------------------------
(* aws/metric.py                                                           *)

\* _get_existing_metrics asking once more after a response without metrics
_get_existing_metrics_AsksAgain(metrics, next_token, acc, ncalls) ==
    LET resp == Page(metrics, next_token)
    IN [names |-> acc \o resp.items \o SubSeq(metrics, next_token + PageSize + 1, Len(metrics)),
        ncalls |-> IF resp.items = <<>> THEN ncalls + 2
                   ELSE ncalls + ((Len(metrics) - next_token + PageSize - 1) \div PageSize)]

\* _get_existing_metrics, from the call passing next_token on
RECURSIVE _get_existing_metrics(_, _, _, _)
_get_existing_metrics(metrics, next_token, acc, ncalls) ==
    LET resp == Page(metrics, next_token)
        found == acc \o resp.items
    IN IF resp.nextToken = 0
       THEN [names |-> found, ncalls |-> ncalls + 1]
       ELSE _get_existing_metrics(metrics, resp.nextToken, found, ncalls + 1)

\* missing_metrics without the comparison to the existing metrics
MissingMetrics_AllDefined(service_list, metric_names) ==
    LET with_metric == SelectSeq(service_list, LAMBDA s : s.metric.present)
    IN [k \in 1..Len(with_metric) |-> with_metric[k].metric]

\* defined_metrics and missing_metrics of create_metrics
MissingMetrics(service_list, metric_names) ==
    LET with_metric == SelectSeq(service_list, LAMBDA s : s.metric.present)
        defined_metrics == [k \in 1..Len(with_metric) |-> with_metric[k].metric]
    IN SelectSeq(defined_metrics, LAMBDA sm : sm.MetricName \notin Range(metric_names))

\* create_metrics, up to _create_missing_metrics
CreateMetrics ==
    /\ pc = "create_metrics"
    /\ LET listing == _get_existing_metrics(SetToSeq(rMetrics), 0, <<>>, 0)
       IN \/ /\ calls' = calls \o ListCalls("list_metrics", <<>>, listing.ncalls)
             /\ existing_metrics' = listing.names
             /\ missing_metrics' = MissingMetrics(filtered_selected_services, listing.names)
             /\ i' = 1
             /\ pc' = "_create_missing_metrics"
             /\ UNCHANGED raised
          \/ \E k \in 1..listing.ncalls, e \in Failures("list_metrics") :
                /\ calls' = calls \o FailedListCalls("list_metrics", <<>>, k, e)
                /\ Raise(e)
                /\ UNCHANGED <<missing_metrics, existing_metrics, i>>
    /\ UNCHANGED <<services, service_names, batchVars, mainVars, streamVars, clean_stale, existing_alarms, selected_services, run, todo,
                   defined_log_group_names, existing_log_group_names, existing_services,
                   missing_services, existing_policies, cleanLocals, remote>>

\* the MetricData of put_metric_data: one data point of value 0
MetricData(missing_metric) == <<[MetricName |-> missing_metric.MetricName, Value |-> 0]>>

\* _create_missing_metrics: a zero data point creates the metric
CreateMissingMetrics ==
    /\ pc = "_create_missing_metrics"
    /\ IF i > Len(missing_metrics)
       THEN /\ pc' = After("create_metrics")
            /\ i' = 1
            /\ UNCHANGED <<raised, calls, rMetrics>>
       ELSE \/ /\ Issue("put_metric_data", MetricData(missing_metrics[i]), "ok")
               /\ rMetrics' = rMetrics \cup {missing_metrics[i].MetricName}
               /\ i' = i + 1
               /\ UNCHANGED <<pc, raised>>
            \/ \E e \in Failures("put_metric_data") :
                  /\ Issue("put_metric_data", MetricData(missing_metrics[i]), e)
                  /\ Raise(e)
                  /\ UNCHANGED <<i, rMetrics>>
    /\ UNCHANGED <<services, service_names, batchVars, mainVars, streamVars, clean_stale, existing_alarms, selected_services, run, todo, locals, cleanLocals,
                   rLogGroups, rTaskDefs, rServices, rTargets, rPolicies, rAlarms>>

-----------------------------------------------------------------------------
(* aws/alarm.py                                                            *)

\* filtered_services = [service_dict for service_dict in services if service_dict.get('alarm')]
AlarmServices(service_list) == SelectSeq(service_list, LAMBDA s : s.alarm.present)

\* _validate_alarm_names returns (TRUE) or raises AeropressException (FALSE)
_validate_alarm_names(service_list) ==
    \A k \in 1..Len(service_list) :
        StartsWith(service_list[k].alarm.AlarmName, <<"e", "c", "s", ":">>)

\* the lookup by policy name alone, whatever the resource id
_find_policy_arn_AnyResource(policy_name, resource_id, policies) ==
    LET hits == {k \in 1..Len(policies) : policies[k].PolicyName = policy_name}
    IN IF hits = {} THEN NoneStr
       ELSE policies[CHOOSE k \in hits : \A j \in hits : k <= j].PolicyARN

\* _find_policy_arn: the arn of the first matching policy, or ''
_find_policy_arn(policy_name, resource_id, policies) ==
    LET hits == {k \in 1..Len(policies) :
                    /\ policies[k].PolicyName = policy_name
                    /\ policies[k].ResourceId = resource_id}
    IN IF hits = {} THEN NoneStr
       ELSE policies[CHOOSE k \in hits : \A j \in hits : k <= j].PolicyARN

\* the alarm _create_or_update_metric_alarm puts for a service
MetricAlarm(service_dict, policies) ==
    [AlarmName |-> service_dict.alarm.AlarmName,
     OKActions |-> [k \in 1..Len(service_dict.alarm.OKActions) |->
                      _find_policy_arn(service_dict.alarm.OKActions[k], ResourceId(service_dict), policies)],
     AlarmActions |-> [k \in 1..Len(service_dict.alarm.AlarmActions) |->
                      _find_policy_arn(service_dict.alarm.AlarmActions[k], ResourceId(service_dict), policies)],
     MetricName |-> service_dict.metric.MetricName]

\* _get_existing_alarms, from the call passing next_token on: the alarms
\* whose name starts with 'ecs:', and the number of describe_alarms calls
RECURSIVE _get_existing_alarms(_, _, _, _)
_get_existing_alarms(alarms, next_token, acc, ncalls) ==
    LET resp == Page(alarms, next_token)
        found == acc \o SelectSeq(resp.items,
                                  LAMBDA alarm : StartsWith(alarm.AlarmName, <<"e", "c", "s", ":">>))
    IN IF resp.nextToken = 0
       THEN [alarms |-> found, ncalls |-> ncalls + 1]
       ELSE _get_existing_alarms(alarms, resp.nextToken, found, ncalls + 1)

\* stale_alarm_names without the comparison to the defined alarm names
stale_alarm_names_All(existing, service_list) ==
    [k \in 1..Len(existing) |-> existing[k].AlarmName]

\* stale_alarm_names of _clean_stale_alarms: the names of the existing
\* alarms that no service of the list defines
stale_alarm_names(existing, service_list) ==
    LET defined_alarm_names == {service_list[k].alarm.AlarmName : k \in 1..Len(service_list)}
        stale == SelectSeq(existing, LAMBDA ea : ea.AlarmName \notin defined_alarm_names)
    IN [k \in 1..Len(stale) |-> stale[k].AlarmName]

\* create_scaling_alarms going on with the policies create_scaling_policies
\* listed before its puts
FetchExistingPolicies_ListedBeforePuts ==
    /\ i' = 1
    /\ pc' = "_create_or_update_alarms"
    /\ UNCHANGED <<calls, existing_policies, raised>>

\* existing_policies = get_existing_scaling_policies() in create_scaling_alarms
FetchExistingPolicies ==
    LET listing == get_existing_scaling_policies(SetToSeq(rPolicies), 0, <<>>, 0)
    IN \/ /\ calls' = calls \o ListCalls("describe_scaling_policies", <<>>, listing.ncalls)
          /\ existing_policies' = listing.policies
          /\ i' = 1
          /\ pc' = "_create_or_update_alarms"
          /\ UNCHANGED raised
       \/ \E k \in 1..listing.ncalls, e \in Failures("describe_scaling_policies") :
             /\ calls' = calls \o FailedListCalls("describe_scaling_policies", <<>>, k, e)
             /\ Raise(e)
             /\ UNCHANGED <<existing_policies, i>>

\* create_scaling_alarms: the validation; then, if clean_stale, the existing
\* alarms are fetched; if not, the policies are fetched again
CreateScalingAlarms ==
    /\ pc = "create_scaling_alarms"
    /\ IF ~_validate_alarm_names(AlarmServices(filtered_selected_services))
       THEN /\ Raise("AeropressException")
            /\ UNCHANGED <<calls, existing_policies, existing_alarms, i>>
       ELSE IF clean_stale
            THEN LET listing == _get_existing_alarms(SetToSeq(rAlarms), 0, <<>>, 0)
                 IN /\ \/ /\ calls' = calls \o ListCalls("describe_alarms", <<>>, listing.ncalls)
                          /\ existing_alarms' = listing.alarms
                          /\ pc' = "_clean_stale_alarms"
                          /\ UNCHANGED raised
                       \/ \E k \in 1..listing.ncalls, e \in Failures("describe_alarms") :
                             /\ calls' = calls \o FailedListCalls("describe_alarms", <<>>, k, e)
                             /\ Raise(e)
                             /\ UNCHANGED existing_alarms
                    /\ UNCHANGED <<existing_policies, i>>
            ELSE /\ FetchExistingPolicies
                 /\ UNCHANGED existing_alarms
    /\ UNCHANGED <<services, service_names, batchVars, mainVars, streamVars, clean_stale, selected_services, run, todo,
                   defined_log_group_names, existing_log_group_names, existing_services,
                   missing_services, missing_metrics, existing_metrics, cleanLocals, remote>>

\* _clean_stale_alarms: one delete_alarms call for all stale alarms, if any
CleanStaleAlarms ==
    /\ pc = "_clean_stale_alarms"
    /\ LET stale == stale_alarm_names(existing_alarms, AlarmServices(filtered_selected_services))
       IN IF stale = <<>>
          THEN /\ pc' = "get_existing_scaling_policies"
               /\ UNCHANGED <<raised, calls, rAlarms>>
          ELSE \/ /\ Issue("delete_alarms", stale, "ok")
                  /\ rAlarms' = {a \in rAlarms : a.AlarmName \notin Range(stale)}
                  /\ pc' = "get_existing_scaling_policies"
                  /\ UNCHANGED raised
               \/ \E e \in Failures("delete_alarms") :
                     /\ Issue("delete_alarms", stale, e)
                     /\ Raise(e)
                     /\ UNCHANGED rAlarms
    /\ UNCHANGED <<services, service_names, batchVars, mainVars, streamVars, clean_stale, existing_alarms, selected_services, run,
                   i, todo, locals, cleanLocals,
                   rLogGroups, rTaskDefs, rServices, rTargets, rPolicies, rMetrics>>

\* create_scaling_alarms after the clean-up: the policies are fetched again
GetExistingScalingPolicies ==
    /\ pc = "get_existing_scaling_policies"
    /\ FetchExistingPolicies
    /\ UNCHANGED <<services, service_names, batchVars, mainVars, streamVars, clean_stale, existing_alarms, selected_services, run, todo,
                   defined_log_group_names, existing_log_group_names, existing_services,
                   missing_services, missing_metrics, existing_metrics, cleanLocals, remote>>

\* _create_or_update_alarms: put_metric_alarm creates or replaces the alarm
CreateOrUpdateAlarms ==
    /\ pc = "_create_or_update_alarms"
    /\ LET alarm_services == AlarmServices(filtered_selected_services)
       IN IF i > Len(alarm_services)
          THEN /\ pc' = After("create_scaling_alarms")
               /\ i' = 1
               /\ UNCHANGED <<raised, calls, rAlarms>>
          ELSE LET alarm == MetricAlarm(alarm_services[i], existing_policies)
               IN \/ /\ Issue("put_metric_alarm", alarm, "ok")
                     /\ rAlarms' = {a \in rAlarms : a.AlarmName # alarm.AlarmName} \cup {alarm}
                     /\ i' = i + 1
                     /\ UNCHANGED <<pc, raised>>
                  \/ \E e \in Failures("put_metric_alarm") :
                        /\ Issue("put_metric_alarm", alarm, e)
                        /\ Raise(e)
                        /\ UNCHANGED <<i, rAlarms>>
    /\ UNCHANGED <<services, service_names, batchVars, mainVars, streamVars, clean_stale, existing_alarms, selected_services, run, todo, locals, cleanLocals,
                   rLogGroups, rTaskDefs, rServices, rTargets, rPolicies, rMetrics>>

-----------------------------------------------------------------------------
(* aws/service.py: _update_services                                        *)

\* what the remote answers to update_service: a service that does not exist
\* in the cluster cannot be updated
UpdateAnswers(service_dict) ==
    (IF \E r \in rServices : ServiceKey(r) = ServiceKey(service_dict)
     THEN {"ok"} ELSE {"ServiceNotFoundException"})
        \cup Failures("update_service")

\* _update_services passing over the services created in this run
UpdatedServices_NotCreated(service_list) ==
    SelectSeq(service_list, LAMBDA s : s \notin Range(missing_services))

\* the services _update_services calls update_service for, in order
UpdatedServices(service_list) == service_list

\* _update_services: update_service with forceNewDeployment=True
UpdateServices ==
    /\ pc = "_update_services"
    /\ LET updated == UpdatedServices(filtered_selected_services)
       IN IF i > Len(updated)
          THEN /\ pc' = After("_update_services")
               /\ i' = 1
               /\ UNCHANGED <<raised, calls, rServices>>
          ELSE \E res \in UpdateAnswers(updated[i]) :
                  /\ Issue("update_service",
                           [cluster |-> updated[i].cluster, service |-> updated[i].serviceName,
                            forceNewDeployment |-> TRUE], res)
                  /\ IF res = "ok"
                     THEN /\ rServices' =
                                {r \in rServices : ServiceKey(r) # ServiceKey(updated[i])} \cup
                                {[cluster |-> updated[i].cluster,
                                  serviceName |-> updated[i].serviceName,
                                  taskDefinition |-> LatestRevision(updated[i].taskDefinition)]}
                          /\ i' = i + 1
                          /\ UNCHANGED <<pc, raised>>
                     ELSE /\ Raise(res)
                          /\ UNCHANGED <<i, rServices>>
    /\ UNCHANGED <<services, service_names, batchVars, mainVars, streamVars, clean_stale, existing_alarms, selected_services, run, todo, locals, cleanLocals,
                   rLogGroups, rTaskDefs, rTargets, rPolicies, rMetrics, rAlarms>>

-----------------------------------------------------------------------------
(* The deploy command run once, and once more on the remote state the      *)
(* first run left, with the same configuration and the same request.       *)

\* a remote side nothing was deployed to, but for the services sv
FreshRemote(sv) ==
    [logGroups |-> {}, services |-> sv, targets |-> {}, policies |-> {},
     metrics |-> {}, alarms |-> {},
     taskDefs |-> {[family |-> FamilyA, revision |-> 1], [family |-> FamilyB, revision |-> 1]}]

\* a remote side with log groups, a scalable target, policies, a metric and
\* alarms of earlier deployments, some of them no longer configured
UsedRemote(sv) ==
    [logGroups |-> {GroupEcsA, GroupEcsAX, GroupOther}, services |-> sv,
     targets |-> {ResourceId([cluster |-> Cluster1, serviceName |-> NameA]),
                  ResourceId([cluster |-> Cluster1, serviceName |-> NameB])},
     policies |-> {Policy(PolicyUp, ResourceId([cluster |-> Cluster1, serviceName |-> NameA])),
                   Policy(<<"o", "l", "d">>, ResourceId([cluster |-> Cluster1, serviceName |-> NameA])),
                   Policy(PolicyUp, ResourceId([cluster |-> Cluster1, serviceName |-> NameB]))},
     metrics |-> {MetricA, <<"m", "x">>, <<"m", "y">>},
     alarms |-> {[AlarmName |-> AlarmEcsOld, OKActions |-> <<>>, AlarmActions |-> <<>>,
                  MetricName |-> MetricA]},
     taskDefs |-> {[family |-> FamilyA, revision |-> 1], [family |-> FamilyB, revision |-> 1]}]

\* the services a first run can find
RemoteServiceSets ==
    SUBSET {[cluster |-> Cluster1, serviceName |-> NameA,
             taskDefinition |-> [family |-> FamilyA, revision |-> 1]],
            [cluster |-> Cluster1, serviceName |-> NameB,
             taskDefinition |-> [family |-> FamilyB, revision |-> 1]]}

\* the remote states a first run can find
RemoteStates ==
    {FreshRemote(sv) : sv \in RemoteServiceSets} \cup {UsedRemote(sv) : sv \in RemoteServiceSets}

\* a run that main does not start: no files read, the names passed as a list
NoMain ==
    /\ yaml_dicts = <<>>
    /\ image_url = NoneStr
    /\ names_given = TRUE
    /\ subparser_name = "deploy"
    /\ clean_stale_tasks = FALSE
    /\ clean_stale_log_streams = FALSE
    /\ task_definition = NoneStr
    /\ task_dict = <<>>

\* a run that is not clean_stale_log_streams
NoStreams ==
    /\ failed_container_ids = <<>>
    /\ existing_logs = <<>>
    /\ days_ago = 0
    /\ utcnow = 0
    /\ utcoffset = 0
    /\ rContainerInstances = {}

Init ==
    /\ services \in Configs
    /\ service_names \in NameLists(MaxNames)
    /\ selected_services = <<>>
    /\ clean_stale = FALSE
    /\ existing_alarms = <<>>
    /\ rItems = <<>>
    /\ container_instance_ids = <<>>
    /\ start = 0
    /\ end = 0
    /\ pc = "deploy"
    /\ raised = "none"
    /\ NoMain
    /\ NoStreams
    /\ run = 1
    /\ calls = <<>>
    /\ i = 1
    /\ todo = {}
    /\ defined_log_group_names = {}
    /\ existing_log_group_names = {}
    /\ existing_services = <<>>
    /\ missing_services = <<>>
    /\ existing_policies = <<>>
    /\ missing_metrics = <<>>
    /\ existing_metrics = <<>>
    /\ all_task_definitions = <<>>
    /\ service_task_definitions = <<>>
    /\ slept = 0
    /\ \E r \in RemoteStates :
          /\ rLogGroups = r.logGroups
          /\ rTaskDefs = r.taskDefs
          /\ rServices = r.services
          /\ rTargets = r.targets
          /\ rPolicies = r.policies
          /\ rMetrics = r.metrics
          /\ rAlarms = r.alarms

\* the command is run again after a run that completed
Rerun ==
    /\ pc = "return"
    /\ run = 1
    /\ run' = 2
    /\ pc' = "deploy"
    /\ calls' = <<>>
    /\ selected_services' = <<>>
    /\ i' = 1
    /\ todo' = {}
    /\ defined_log_group_names' = {}
    /\ existing_log_group_names' = {}
    /\ existing_services' = <<>>
    /\ missing_services' = <<>>
    /\ existing_policies' = <<>>
    /\ missing_metrics' = <<>>
    /\ existing_metrics' = <<>>
    /\ existing_alarms' = <<>>
    /\ UNCHANGED <<services, service_names, batchVars, mainVars, streamVars, clean_stale, raised, cleanLocals, remote>>

Next ==
    \/ Deploy
    \/ ValidateLogDefinitions
    \/ HandleLogs
    \/ CreateMissingLogGroups
    \/ PutRetentionPolicy
    \/ RegisterTaskDefinitions
    \/ CreateMissingServices
    \/ CreateService
    \/ RegisterScalableTargets
    \/ CreateScalingPolicies
    \/ CreateOrUpdateAllPolicies
    \/ CreateMetrics
    \/ CreateMissingMetrics
    \/ CreateScalingAlarms
    \/ CreateOrUpdateAlarms
    \/ UpdateServices
    \/ Rerun

Spec == Init /\ [][Next]_vars

-----------------------------------------------------------------------------
(* main, deploy subcommand: the configuration is loaded from the files of  *)
(* the config path, with or without --image-url and --service-names.       *)

\* service b naming a task definition that is not the family of its task
ServiceBOtherFamily == [ServiceB(Cluster1) EXCEPT !.taskDefinition = FamilyA]

\* the definitions yaml.load finds under the config path: none; a task
\* without service; a task and two services; the same with a service whose
\* taskDefinition is another family
ConfigFiles ==
    {<<>>,
     <<TaskOnly>>,
     <<TaskOnly, ServiceA(LogConfiguration(GroupEcsA, EcsPrefix), AlarmChoiceEcs), ServiceB(Cluster1)>>,
     <<TaskOnly, ServiceA(LogConfiguration(GroupEcsA, EcsPrefix), AlarmChoiceEcs), ServiceBOtherFamily>>}

InitMain ==
    /\ pc = "_load_config"
    /\ yaml_dicts \in ConfigFiles
    /\ image_url \in {NoneStr, ImageUrl}
    /\ \/ names_given = TRUE /\ service_names \in NameLists(MaxNames)
       \/ names_given = FALSE /\ service_names = <<>>
    /\ subparser_name = "deploy"
    /\ clean_stale_tasks = FALSE
    /\ clean_stale_log_streams = FALSE
    /\ task_definition = NoneStr
    /\ task_dict = <<>>
    /\ services = <<>>
    /\ selected_services = <<>>
    /\ clean_stale = FALSE
    /\ existing_alarms = <<>>
    /\ rItems = <<>>
    /\ container_instance_ids = <<>>
    /\ start = 0
    /\ end = 0
    /\ NoStreams
    /\ raised = "none"
    /\ run = 1
    /\ calls = <<>>
    /\ i = 1
    /\ todo = {}
    /\ defined_log_group_names = {}
    /\ existing_log_group_names = {}
    /\ existing_services = <<>>
    /\ missing_services = <<>>
    /\ existing_policies = <<>>
    /\ missing_metrics = <<>>
    /\ existing_metrics = <<>>
    /\ all_task_definitions = <<>>
    /\ service_task_definitions = <<>>
    /\ slept = 0
    /\ \E r \in RemoteStates :
          /\ rLogGroups = r.logGroups
          /\ rTaskDefs = r.taskDefs
          /\ rServices = r.services
          /\ rTargets = r.targets
          /\ rPolicies = r.policies
          /\ rMetrics = r.metrics
          /\ rAlarms = r.alarms

NextMain ==
    \/ LoadConfig
    \/ Deploy
    \/ ValidateLogDefinitions
    \/ HandleLogs
    \/ CreateMissingLogGroups
    \/ PutRetentionPolicy
    \/ RegisterTaskDefinitions
    \/ CreateMissingServices
    \/ CreateService
    \/ RegisterScalableTargets
    \/ CreateScalingPolicies
    \/ CreateOrUpdateAllPolicies
    \/ CreateMetrics
    \/ CreateMissingMetrics
    \/ CreateScalingAlarms
    \/ CreateOrUpdateAlarms
    \/ UpdateServices

SpecMain == InitMain /\ [][NextMain]_vars

-----------------------------------------------------------------------------
(* cli.py: main, the register subcommand: the configuration is loaded, the *)
(* task of the family --task-definition is looked up and passed to         *)
(* task.register_all([task_dict], False).                                  *)

\* the lookup going through the whole list: the last match is kept
TaskOfFamily_LastMatch(family, service_list) ==
    LET hits == {k \in 1..Len(service_list) : service_list[k].task.family = family}
    IN IF hits = {} THEN <<>>
       ELSE <<service_list[CHOOSE k \in hits : \A j \in hits : k >= j].task>>

\* for service_dict in services: if args.task_definition ==
\* service_dict['task']['family']: task_dict = service_dict['task']; break
\* (<<>> for None)
TaskOfFamily(family, service_list) ==
    LET hits == {k \in 1..Len(service_list) : service_list[k].task.family = family}
    IN IF hits = {} THEN <<>>
       ELSE <<service_list[CHOOSE k \in hits : \A j \in hits : k <= j].task>>

\* main, register subcommand after _load_config: without a task of that
\* family main returns, else task.register_all([task_dict], False) is called
Register ==
    /\ pc = "register"
    /\ task_dict' = TaskOfFamily(task_definition, services)
    /\ IF task_dict' = <<>>
       THEN /\ pc' = "return"
            /\ UNCHANGED clean_stale
       ELSE /\ pc' = register_all[1]
            /\ clean_stale' = FALSE
    /\ UNCHANGED <<services, service_names, selected_services, existing_alarms, raised, run,
                   calls, i, todo, locals, cleanLocals, batchVars, streamVars, remote,
                   yaml_dicts, image_url, names_given, subparser_name, clean_stale_tasks,
                   clean_stale_log_streams, task_definition>>

\* the definitions under the config path: none; one task; a task and two
\* services; two definitions whose tasks have the same family
RegisterConfigFiles ==
    {<<>>,
     <<TaskOnly>>,
     <<TaskOnly, ServiceA(LogConfiguration(GroupEcsA, EcsPrefix), NoAlarm), ServiceB(Cluster1)>>,
     <<ServiceA(LogConfiguration(GroupEcsA, EcsPrefix), NoAlarm),
       ServiceA(LogConfiguration(GroupEcsAX, EcsPrefix), NoAlarm)>>,
     <<ServiceA(LogConfiguration(GroupVarA, EcsPrefix), NoAlarm)>>}

InitRegister ==
    /\ pc = "_load_config"
    /\ subparser_name = "register"
    /\ yaml_dicts \in RegisterConfigFiles
    /\ image_url \in {NoneStr, ImageUrl}
    /\ task_definition \in {NoneStr, FamilyA, FamilyB, FamilyT}
    /\ task_dict = <<>>
    /\ names_given = TRUE
    /\ clean_stale_tasks = FALSE
    /\ clean_stale_log_streams = FALSE
    /\ services = <<>>
    /\ service_names = <<>>
    /\ selected_services = <<>>
    /\ clean_stale \in BOOLEAN
    /\ existing_alarms = <<>>
    /\ rItems = <<>>
    /\ container_instance_ids = <<>>
    /\ start = 0
    /\ end = 0
    /\ NoStreams
    /\ raised = "none"
    /\ run = 1
    /\ calls = <<>>
    /\ i = 1
    /\ todo = {}
    /\ defined_log_group_names = {}
    /\ existing_log_group_names = {}
    /\ existing_services = <<>>
    /\ missing_services = <<>>
    /\ existing_policies = <<>>
    /\ missing_metrics = <<>>
    /\ existing_metrics = <<>>
    /\ all_task_definitions = <<>>
    /\ service_task_definitions = <<>>
    /\ slept = 0
    /\ \E r \in RemoteStates :
          /\ rLogGroups = r.logGroups
          /\ rTaskDefs = r.taskDefs
          /\ rServices = r.services
          /\ rTargets = r.targets
          /\ rPolicies = r.policies
          /\ rMetrics = r.metrics
          /\ rAlarms = r.alarms

NextRegister ==
    \/ LoadConfig
    \/ Register
    \/ ValidateLogDefinitions
    \/ HandleLogs
    \/ CreateMissingLogGroups
    \/ PutRetentionPolicy
    \/ RegisterTaskDefinitions

SpecRegister == InitRegister /\ [][NextRegister]_vars

-----------------------------------------------------------------------------
(* register_all(tasks, clean_stale) and update_all(services, clean_stale)  *)
(* called one after the other on a selection of the configuration, as      *)
(* deploy calls them, by a caller that passes clean_stale (cli.py leaves   *)
(* it at its default, False).                                              *)

PolicyOld == <<"o", "l", "d">>

\* an alarm whose AlarmActions name a policy that the scale section lacks
AlarmUnresolved ==
    [present |-> TRUE, AlarmName |-> AlarmEcsA, OKActions |-> <<PolicyDown>>,
     AlarmActions |-> <<PolicyOld>>]

StaleConfigs ==
    {<<TaskOnly, ServiceA(log, alarm), ServiceB(cluster)>> :
        log \in {LogConfiguration(GroupEcsA, EcsPrefix), LogConfiguration(GroupEcsAX, EcsPrefix)},
        alarm \in AlarmChoices \cup {AlarmUnresolved},
        cluster \in {Cluster1, Cluster2}}

\* every non-empty list of at most n definitions of the configuration
ServiceLists(config, n) == UNION {[1..k -> Range(config)] : k \in 1..n}

\* a remote side with log groups, policies and alarms inside and outside
\* the naming conventions, some configured and some not; the policy that no
\* configuration names is on service a where the remote has that service
\* and on service b elsewhere
StaleRemote(sv) ==
    [logGroups |-> {GroupEcsA, GroupEcsB, GroupEcsa, GroupOther, GroupVarA}, services |-> sv,
     targets |-> {ResourceId([cluster |-> Cluster1, serviceName |-> NameA]),
                  ResourceId([cluster |-> Cluster1, serviceName |-> NameB])},
     policies |-> {Policy(PolicyUp, ResourceId([cluster |-> Cluster1, serviceName |-> NameA])),
                   Policy(PolicyOld,
                          ResourceId([cluster |-> Cluster1,
                                      serviceName |-> IF \E s \in sv : s.serviceName = NameA
                                                      THEN NameA ELSE NameB])),
                   Policy(PolicyUp, ResourceId([cluster |-> Cluster1, serviceName |-> NameB]))},
     metrics |-> {MetricA},
     alarms |-> {[AlarmName |-> AlarmEcsOld, OKActions |-> <<>>, AlarmActions |-> <<>>,
                  MetricName |-> MetricA],
                 [AlarmName |-> AlarmEcsA, OKActions |-> <<>>, AlarmActions |-> <<>>,
                  MetricName |-> MetricA],
                 [AlarmName |-> AlarmCpuA, OKActions |-> <<>>, AlarmActions |-> <<>>,
                  MetricName |-> MetricA]},
     taskDefs |-> {[family |-> FamilyA, revision |-> 1], [family |-> FamilyB, revision |-> 1]}]

StaleRemoteStates ==
    {FreshRemote(sv) : sv \in RemoteServiceSets} \cup {StaleRemote(sv) : sv \in RemoteServiceSets}

InitStale ==
    /\ services \in StaleConfigs
    /\ service_names = <<>>
    /\ selected_services \in ServiceLists(services, MaxNames)
    /\ clean_stale \in BOOLEAN
    /\ existing_alarms = <<>>
    /\ rItems = <<>>
    /\ container_instance_ids = <<>>
    /\ start = 0
    /\ end = 0
    /\ pc = deploy[1]
    /\ raised = "none"
    /\ NoMain
    /\ NoStreams
    /\ run = 1
    /\ calls = <<>>
    /\ i = 1
    /\ todo = {}
    /\ defined_log_group_names = {}
    /\ existing_log_group_names = {}
    /\ existing_services = <<>>
    /\ missing_services = <<>>
    /\ existing_policies = <<>>
    /\ missing_metrics = <<>>
    /\ existing_metrics = <<>>
    /\ all_task_definitions = <<>>
    /\ service_task_definitions = <<>>
    /\ slept = 0
    /\ \E r \in StaleRemoteStates :
          /\ rLogGroups = r.logGroups
          /\ rTaskDefs = r.taskDefs
          /\ rServices = r.services
          /\ rTargets = r.targets
          /\ rPolicies = r.policies
          /\ rMetrics = r.metrics
          /\ rAlarms = r.alarms

NextStale ==
    \/ ValidateLogDefinitions
    \/ HandleLogs
    \/ CreateMissingLogGroups
    \/ PutRetentionPolicy
    \/ CleanStaleLogGroups
    \/ RegisterTaskDefinitions
    \/ CreateMissingServices
    \/ CreateService
    \/ RegisterScalableTargets
    \/ CreateScalingPolicies
    \/ CleanStalePolicies
    \/ CreateOrUpdateAllPolicies
    \/ CreateMetrics
    \/ CreateMissingMetrics
    \/ CreateScalingAlarms
    \/ CleanStaleAlarms
    \/ GetExistingScalingPolicies
    \/ CreateOrUpdateAlarms
    \/ UpdateServices

SpecStale == InitStale /\ [][NextStale]_vars

-----------------------------------------------------------------------------
(* aws/task.py: clean_stale_tasks (the clean command with --stale-tasks)   *)

\* the clusters list_clusters returns
RemoteClusters == {Cluster1, Cluster2}

\* _chunks cutting slices of n + 1 items
_chunks_OneMore(l, n) ==
    [k \in 1..((Len(l) + n) \div (n + 1)) |->
        SubSeq(l, (k - 1) * (n + 1) + 1, Min(k * (n + 1), Len(l)))]

\* _chunks: the slices l[i:i + n] for i in range(0, len(l), n)
_chunks(l, n) ==
    [k \in 1..((Len(l) + n - 1) \div n) |-> SubSeq(l, (k - 1) * n + 1, Min(k * n, Len(l)))]

\* the while-loop of _retrieve_service_task_definitions for one cluster,
\* from the call passing next_token on: the arns and the number of calls
RECURSIVE ListServiceArns(_, _, _, _)
ListServiceArns(service_arns, next_token, acc, ncalls) ==
    LET resp == Page(service_arns, next_token)
        found == acc \o resp.items
    IN IF resp.nextToken = 0
       THEN [arns |-> found, ncalls |-> ncalls + 1]
       ELSE ListServiceArns(service_arns, resp.nextToken, found, ncalls + 1)

\* describe_services: the task definition of each service of a chunk
DescribeServices(cluster, service_chunk) ==
    [k \in 1..Len(service_chunk) |->
        (CHOOSE r \in rServices : ServiceArn(r.cluster, r.serviceName) = service_chunk[k]).taskDefinition]

\* the task definitions of the chunks of one cluster, and the calls made
RECURSIVE DescribeChunks(_, _, _, _)
DescribeChunks(cluster, service_chunks, acc, made) ==
    IF service_chunks = <<>>
    THEN [task_definitions |-> acc, calls |-> made]
    ELSE DescribeChunks(cluster, Tail(service_chunks),
             acc \o DescribeServices(cluster, Head(service_chunks)),
             Append(made, CallRecord("describe_services", Head(service_chunks), "ok")))

\* _retrieve_service_task_definitions for the clusters left: the task
\* definitions services use, and the calls made (listings first, as in the code)
RECURSIVE RetrieveServiceTaskDefinitions(_, _, _, _)
RetrieveServiceTaskDefinitions(cluster_arns, acc, listed, described) ==
    IF cluster_arns = <<>>
    THEN [task_definitions |-> acc, calls |-> listed \o described]
    ELSE LET cluster == Head(cluster_arns)
             listing == ListServiceArns(ServiceArns(cluster), 0, <<>>, 0)
             chunks == DescribeChunks(cluster, _chunks(listing.arns, 10), <<>>, <<>>)
         IN RetrieveServiceTaskDefinitions(Tail(cluster_arns),
                acc \o chunks.task_definitions,
                listed \o ListCalls("list_services", cluster, listing.ncalls),
                described \o chunks.calls)

\* _retrieve_service_task_definitions looking at the first cluster only
_retrieve_service_task_definitions_FirstCluster ==
    LET got == RetrieveServiceTaskDefinitions(SubSeq(SetToSeq(RemoteClusters), 1, 1),
                                              <<>>, <<>>, <<>>)
    IN [task_definitions |-> got.task_definitions,
        calls |-> <<CallRecord("list_clusters", <<>>, "ok")>> \o got.calls]

\* _retrieve_service_task_definitions: the task definitions of the services
\* of every cluster, and the calls made
_retrieve_service_task_definitions ==
    LET got == RetrieveServiceTaskDefinitions(SetToSeq(RemoteClusters), <<>>, <<>>, <<>>)
    IN [task_definitions |-> got.task_definitions,
        calls |-> <<CallRecord("list_clusters", <<>>, "ok")>> \o got.calls]

\* the while-loop of clean_stale_tasks over list_task_definitions
RECURSIVE ListTaskDefinitions(_, _, _, _)
ListTaskDefinitions(task_definition_arns, next_token, acc, ncalls) ==
    LET resp == Page(task_definition_arns, next_token)
        found == acc \o resp.items
    IN IF resp.nextToken = 0
       THEN [arns |-> found, ncalls |-> ncalls + 1]
       ELSE ListTaskDefinitions(task_definition_arns, resp.nextToken, found, ncalls + 1)

\* clean_stale_tasks, up to its for-loop: the task definitions in use and
\* all ACTIVE task definitions are fetched
CleanStaleTasks ==
    /\ pc = "clean_stale_tasks"
    /\ LET used == _retrieve_service_task_definitions
           listing == ListTaskDefinitions(SetToSeq(rTaskDefs), 0, <<>>, 0)
           made == used.calls \o ListCalls("list_task_definitions", <<>>, listing.ncalls)
       IN \/ /\ calls' = calls \o made
             /\ service_task_definitions' = used.task_definitions
             /\ all_task_definitions' = listing.arns
             /\ i' = 1
             /\ pc' = "for_task_definition"
             /\ UNCHANGED raised
          \/ \E k \in 1..Len(made), e \in Failures("list_task_definitions") :
                /\ calls' = calls \o [j \in 1..k |->
                                        IF j = k THEN [made[j] EXCEPT !.res = e] ELSE made[j]]
                /\ Raise(e)
                /\ UNCHANGED <<service_task_definitions, all_task_definitions, i>>
    /\ UNCHANGED <<services, service_names, batchVars, mainVars, streamVars, clean_stale, existing_alarms, selected_services, run, todo, locals, slept, remote>>

\* the for-loop of clean_stale_tasks: a task definition in use is passed
\* over, for a stale one slept starts at 0
ForTaskDefinition ==
    /\ pc = "for_task_definition"
    /\ IF i > Len(all_task_definitions)
       THEN /\ pc' = "return"
            /\ UNCHANGED <<i, slept>>
       ELSE IF all_task_definitions[i] \in Range(service_task_definitions)
            THEN /\ i' = i + 1
                 /\ UNCHANGED <<pc, slept>>
            ELSE /\ slept' = 0
                 /\ pc' = "deregister_task_definition"
                 /\ UNCHANGED i
    /\ UNCHANGED <<services, service_names, batchVars, mainVars, streamVars, clean_stale, existing_alarms, selected_services, raised, run, calls, todo, locals,
                   all_task_definitions, service_task_definitions, remote>>

\* the deregister_task_definition calls made so far for the task definition at i
Attempts ==
    Cardinality({k \in 1..Len(calls) :
                    /\ calls[k].op = "deregister_task_definition"
                    /\ calls[k].arg = all_task_definitions[i]})

\* the give-up check written with > for >=
GiveUp_After20(seconds_slept) == seconds_slept > 20

\* "Give up trying after 20 seconds."
GiveUp(seconds_slept) == seconds_slept >= 20

\* one pass of the while-loop of clean_stale_tasks: the call, the except
\* clause, the else clause, the give-up check
DeregisterTaskDefinition ==
    /\ pc = "deregister_task_definition"
    /\ Attempts < MaxAttempts
    /\ \E res \in {"ok"} \cup Failures("deregister_task_definition") :
          /\ Issue("deregister_task_definition", all_task_definitions[i], res)
          /\ rTaskDefs' = IF res = "ok" THEN rTaskDefs \ {all_task_definitions[i]} ELSE rTaskDefs
          /\ IF res = "ok"
             THEN \* else: break
                  /\ i' = i + 1
                  /\ pc' = "for_task_definition"
                  /\ UNCHANGED <<raised, slept>>
             ELSE IF res \in ClientErrorCodes
                  THEN \* except ClientError: the sleep only when throttled
                       /\ slept' = IF res = "ThrottlingException" THEN slept + 5 ELSE slept
                       /\ IF GiveUp(slept')
                          THEN /\ i' = i + 1
                               /\ pc' = "for_task_definition"
                          ELSE UNCHANGED <<i, pc>>
                       /\ UNCHANGED raised
                  ELSE /\ Raise(res)
                       /\ UNCHANGED <<i, slept>>
    /\ UNCHANGED <<services, service_names, batchVars, mainVars, streamVars, clean_stale, existing_alarms, selected_services, run, todo, locals,
                   all_task_definitions, service_task_definitions,
                   rLogGroups, rServices, rTargets, rPolicies, rMetrics, rAlarms>>

\* the task definitions and services the clean command can find
CleanTaskDefs ==
    {[family |-> FamilyA, revision |-> 1], [family |-> FamilyA, revision |-> 2],
     [family |-> FamilyB, revision |-> 1]}

CleanServiceSets ==
    SUBSET {[cluster |-> Cluster1, serviceName |-> NameA,
             taskDefinition |-> [family |-> FamilyA, revision |-> 2]],
            [cluster |-> Cluster2, serviceName |-> NameB,
             taskDefinition |-> [family |-> FamilyB, revision |-> 1]]}

InitClean ==
    /\ services = <<>>
    /\ service_names = <<>>
    /\ selected_services = <<>>
    /\ clean_stale = FALSE
    /\ existing_alarms = <<>>
    /\ rItems = <<>>
    /\ container_instance_ids = <<>>
    /\ start = 0
    /\ end = 0
    /\ pc = "clean_stale_tasks"
    /\ raised = "none"
    /\ NoMain
    /\ NoStreams
    /\ run = 1
    /\ calls = <<>>
    /\ i = 1
    /\ todo = {}
    /\ defined_log_group_names = {}
    /\ existing_log_group_names = {}
    /\ existing_services = <<>>
    /\ missing_services = <<>>
    /\ existing_policies = <<>>
    /\ missing_metrics = <<>>
    /\ existing_metrics = <<>>
    /\ all_task_definitions = <<>>
    /\ service_task_definitions = <<>>
    /\ slept = 0
    /\ rLogGroups = {}
    /\ rTaskDefs \in {tds \in SUBSET CleanTaskDefs : tds # {}}
    /\ rServices \in {sv \in CleanServiceSets :
                         /\ \A s \in sv : s.taskDefinition \in rTaskDefs
                         /\ [family |-> FamilyB, revision |-> 1] \in rTaskDefs
                                => \E s \in sv : s.serviceName = NameB}
    /\ rTargets = {}
    /\ rPolicies = {}
    /\ rMetrics = {}
    /\ rAlarms = {}

NextClean ==
    \/ CleanStaleTasks
    \/ ForTaskDefinition
    \/ DeregisterTaskDefinition

SpecClean == InitClean /\ [][NextClean]_vars

\* the while-loop of clean_stale_tasks after MaxAttempts calls for the task
\* definition at i: the call and its except and else clauses. calls keeps the
\* first MaxAttempts attempts only; the loop itself has no such bound.
DeregisterAgain ==
    /\ pc = "deregister_task_definition"
    /\ Attempts = MaxAttempts
    /\ \E res \in {"ok"} \cup Failures("deregister_task_definition") :
          /\ rTaskDefs' = IF res = "ok" THEN rTaskDefs \ {all_task_definitions[i]} ELSE rTaskDefs
          /\ IF res = "ok"
             THEN \* else: break
                  /\ i' = i + 1
                  /\ pc' = "for_task_definition"
                  /\ UNCHANGED <<raised, slept>>
             ELSE IF res \in ClientErrorCodes
                  THEN \* except ClientError: the sleep only when throttled
                       /\ slept' = IF res = "ThrottlingException" THEN slept + 5 ELSE slept
                       /\ pc' = "if slept >= 20"
                       /\ UNCHANGED <<i, raised>>
                  ELSE /\ Raise(res)
                       /\ UNCHANGED <<i, slept>>
    /\ UNCHANGED <<services, service_names, batchVars, mainVars, streamVars, clean_stale, existing_alarms, selected_services, run, calls, todo, locals,
                   all_task_definitions, service_task_definitions,
                   rLogGroups, rServices, rTargets, rPolicies, rMetrics, rAlarms>>

\* the give-up check that ends a pass of the while-loop after a ClientError:
\* break, or the next pass
IfSlept ==
    /\ pc = "if slept >= 20"
    /\ IF GiveUp(slept)
       THEN /\ i' = i + 1
            /\ pc' = "for_task_definition"
       ELSE /\ pc' = "deregister_task_definition"
            /\ UNCHANGED i
    /\ UNCHANGED <<services, service_names, batchVars, mainVars, streamVars, clean_stale, existing_alarms, selected_services, raised, run, calls, todo, locals,
                   slept, all_task_definitions, service_task_definitions, remote>>

NextCleanFair ==
    \/ NextClean
    \/ DeregisterAgain
    \/ IfSlept

\* the clean command as a running process: the interpreter always takes the
\* next step of clean_stale_tasks when there is one; what the remote answers
\* stays free
SpecCleanFair == InitClean /\ [][NextCleanFair]_vars /\ WF_vars(NextCleanFair)

-----------------------------------------------------------------------------
(* The paginated listers, each run alone on a remote listing rItems that   *)
(* the remote hands out in pages of PageSize items.                        *)

\* longest remote listing
MaxItems == 5

\* every list of at most n items of the set S
Lists(S, n) == UNION {[1..k -> S] : k \in 0..n}

\* the items a listing can hold, by lister
Listable(lister) ==
    CASE lister = "_get_existing_alarms" ->
             {[AlarmName |-> name, OKActions |-> <<>>, AlarmActions |-> <<>>, MetricName |-> MetricA] :
                 name \in {AlarmEcsA, AlarmCpuA, AlarmEcsOld}}
      [] lister = "_get_existing_log_group_names" -> {GroupEcsA, GroupEcsAX, GroupVarA}
      [] lister = "get_existing_scaling_policies" ->
             {Policy(name, ResourceId([cluster |-> Cluster1, serviceName |-> NameA])) :
                 name \in {PolicyUp, PolicyDown, PolicyOld}}
      [] lister = "_get_existing_services" ->
             {ServiceArn(Cluster1, NameA), ServiceArn(Cluster1, NameB), ServiceArn(Cluster2, NameZ)}
      [] lister = "list_task_definitions" ->
             {[family |-> FamilyA, revision |-> 1], [family |-> FamilyA, revision |-> 2],
              [family |-> FamilyB, revision |-> 1]}
      [] lister = "_get_existing_metrics" -> {MetricA, <<"m", "x">>, <<"m", "y">>}

Listers ==
    {"_get_existing_alarms", "_get_existing_log_group_names", "get_existing_scaling_policies",
     "_get_existing_services", "list_task_definitions", "_get_existing_metrics"}

InitList ==
    /\ pc \in Listers
    /\ rItems \in Lists(Listable(pc), MaxItems)
    /\ services = <<>>
    /\ service_names = <<>>
    /\ selected_services = <<>>
    /\ clean_stale = FALSE
    /\ existing_alarms = <<>>
    /\ container_instance_ids = <<>>
    /\ start = 0
    /\ end = 0
    /\ raised = "none"
    /\ NoMain
    /\ NoStreams
    /\ run = 1
    /\ calls = <<>>
    /\ i = 1
    /\ todo = {}
    /\ defined_log_group_names = {}
    /\ existing_log_group_names = {}
    /\ existing_services = <<>>
    /\ missing_services = <<>>
    /\ existing_policies = <<>>
    /\ missing_metrics = <<>>
    /\ existing_metrics = <<>>
    /\ all_task_definitions = <<>>
    /\ service_task_definitions = <<>>
    /\ slept = 0
    /\ rLogGroups = {}
    /\ rTaskDefs = {}
    /\ rServices = {}
    /\ rTargets = {}
    /\ rPolicies = {}
    /\ rMetrics = {}
    /\ rAlarms = {}

\* what no lister changes
ListUnchanged ==
    UNCHANGED <<services, service_names, selected_services, clean_stale, raised, run, i, todo,
                missing_services, missing_metrics, service_task_definitions, slept,
                batchVars, mainVars, streamVars, remote>>

\* existing_alarms = _get_existing_alarms()
GetExistingAlarms ==
    /\ pc = "_get_existing_alarms"
    /\ LET listing == _get_existing_alarms(rItems, 0, <<>>, 0)
       IN /\ calls' = calls \o ListCalls("describe_alarms", <<>>, listing.ncalls)
          /\ existing_alarms' = listing.alarms
    /\ pc' = "return"
    /\ ListUnchanged
    /\ UNCHANGED <<existing_metrics, defined_log_group_names, existing_log_group_names, existing_services,
                   existing_policies, all_task_definitions>>

\* existing_log_group_names = _get_existing_log_group_names()
GetExistingLogGroupNames ==
    /\ pc = "_get_existing_log_group_names"
    /\ LET listing == _get_existing_log_group_names(rItems, 0, {}, 0)
       IN /\ calls' = calls \o ListCalls("describe_log_groups", <<>>, listing.ncalls)
          /\ existing_log_group_names' = listing.names
    /\ pc' = "return"
    /\ ListUnchanged
    /\ UNCHANGED <<existing_metrics, defined_log_group_names, existing_alarms, existing_services,
                   existing_policies, all_task_definitions>>

\* existing_policies = get_existing_scaling_policies()
GetExistingPolicies ==
    /\ pc = "get_existing_scaling_policies"
    /\ LET listing == get_existing_scaling_policies(rItems, 0, <<>>, 0)
       IN /\ calls' = calls \o ListCalls("describe_scaling_policies", <<>>, listing.ncalls)
          /\ existing_policies' = listing.policies
    /\ pc' = "return"
    /\ ListUnchanged
    /\ UNCHANGED <<existing_metrics, defined_log_group_names, existing_log_group_names, existing_alarms,
                   existing_services, all_task_definitions>>

\* the while-loop of _get_existing_services for one cluster
GetExistingServiceNames ==
    /\ pc = "_get_existing_services"
    /\ LET listing == ListServices(rItems, 0, <<>>, 0)
       IN /\ calls' = calls \o ListCalls("list_services", Cluster1, listing.ncalls)
          /\ existing_services' = listing.names
    /\ pc' = "return"
    /\ ListUnchanged
    /\ UNCHANGED <<existing_metrics, defined_log_group_names, existing_log_group_names, existing_alarms,
                   existing_policies, all_task_definitions>>

\* the while-loop of clean_stale_tasks over list_task_definitions
GetAllTaskDefinitions ==
    /\ pc = "list_task_definitions"
    /\ LET listing == ListTaskDefinitions(rItems, 0, <<>>, 0)
       IN /\ calls' = calls \o ListCalls("list_task_definitions", <<>>, listing.ncalls)
          /\ all_task_definitions' = listing.arns
    /\ pc' = "return"
    /\ ListUnchanged
    /\ UNCHANGED <<existing_metrics, defined_log_group_names, existing_log_group_names, existing_alarms,
                   existing_services, existing_policies>>

\* existing_metrics = _get_existing_metrics()
GetExistingMetrics ==
    /\ pc = "_get_existing_metrics"
    /\ LET listing == _get_existing_metrics(rItems, 0, <<>>, 0)
       IN /\ calls' = calls \o ListCalls("list_metrics", <<>>, listing.ncalls)
          /\ existing_metrics' = listing.names
    /\ pc' = "return"
    /\ ListUnchanged
    /\ UNCHANGED <<defined_log_group_names, existing_log_group_names, existing_alarms,
                   existing_services, existing_policies, all_task_definitions>>

NextList ==
    \/ GetExistingAlarms
    \/ GetExistingLogGroupNames
    \/ GetExistingPolicies
    \/ GetExistingServiceNames
    \/ GetAllTaskDefinitions
    \/ GetExistingMetrics

SpecList == InitList /\ [][NextList]_vars

-----------------------------------------------------------------------------
(* The batched describe calls, each loop run alone on a list of any        *)
(* length: the describe_services loop of _retrieve_service_task_definitions*)
(* on the services listed for one cluster, and _get_failed_container_ids   *)
(* on the container ids of the log streams.  The k-th item of a list is    *)
(* written k.                                                              *)

\* most services listed for the cluster
MaxServices == 25
\* most container ids
MaxContainerIds == 205

InitBatch ==
    /\ \/ /\ pc = "describe_services"
          /\ \E n \in 0..MaxServices : rItems = [k \in 1..n |-> k]
          /\ container_instance_ids = <<>>
          /\ start = 0
          /\ end = 0
       \/ /\ pc = "_get_failed_container_ids"
          /\ \E n \in 0..MaxContainerIds : container_instance_ids = [k \in 1..n |-> <<ToString(k)>>]
          /\ rItems = <<>>
          /\ start = 0
          /\ end = 100
    /\ services = <<>>
    /\ service_names = <<>>
    /\ selected_services = <<>>
    /\ clean_stale = FALSE
    /\ existing_alarms = <<>>
    /\ raised = "none"
    /\ NoMain
    /\ NoStreams
    /\ run = 1
    /\ calls = <<>>
    /\ i = 1
    /\ todo = {}
    /\ defined_log_group_names = {}
    /\ existing_log_group_names = {}
    /\ existing_services = <<>>
    /\ missing_services = <<>>
    /\ existing_policies = <<>>
    /\ missing_metrics = <<>>
    /\ existing_metrics = <<>>
    /\ all_task_definitions = <<>>
    /\ service_task_definitions = <<>>
    /\ slept = 0
    /\ rLogGroups = {}
    /\ rTaskDefs = {}
    /\ rServices = {}
    /\ rTargets = {}
    /\ rPolicies = {}
    /\ rMetrics = {}
    /\ rAlarms = {}

\* _retrieve_service_task_definitions: one describe_services call per chunk
\* of the services of the cluster
DescribeServiceChunks ==
    /\ pc = "describe_services"
    /\ LET service_chunks == _chunks(rItems, 10)
       IN IF i > Len(service_chunks)
          THEN /\ pc' = "return"
               /\ UNCHANGED <<calls, i>>
          ELSE /\ Issue("describe_services", service_chunks[i], "ok")
               /\ i' = i + 1
               /\ UNCHANGED pc
    /\ UNCHANGED <<services, service_names, selected_services, clean_stale, existing_alarms,
                   raised, run, todo, locals, cleanLocals, batchVars, mainVars, streamVars, remote>>

\* container_instance_ids[start:end]
Slice(l, from, to) == SubSeq(l, Min(from, Len(l)) + 1, Min(to, Len(l)))

\* the arn of a failure of describe_container_instances:
\* arn:aws:ecs:<region>:<account>:container-instance/<id>
FailureArn(container_id) == <<"arn:aws:ecs:container-instance", "/">> \o container_id

\* resp['failures'] for a slice of ids: one failure per id that is no
\* container instance of the cluster, in the order passed
Failed(ids) ==
    LET missing == SelectSeq(ids, LAMBDA id : id \notin rContainerInstances)
    IN [k \in 1..Len(missing) |-> [arn |-> FailureArn(missing[k])]]

\* one pass of the while-loop of _get_failed_container_ids; the caller goes
\* on to _delete_log_streams, which has nothing to loop over when
\* existing_logs is empty
GetFailedContainerIds ==
    /\ pc = "_get_failed_container_ids"
    /\ LET ids == Slice(container_instance_ids, start, end)
       IN \/ /\ Issue("describe_container_instances", ids, "ok")
             /\ failed_container_ids' = failed_container_ids \o
                   [k \in 1..Len(Failed(ids)) |-> Last(Split(Failed(ids)[k].arn, "/"))]
             /\ IF end >= Len(container_instance_ids)
                THEN /\ pc' = IF existing_logs = <<>> THEN "return" ELSE "_delete_log_streams"
                     /\ UNCHANGED <<start, end>>
                ELSE /\ start' = end
                     /\ end' = IF end + 100 >= Len(container_instance_ids)
                               THEN Len(container_instance_ids)
                               ELSE end + 100
                     /\ UNCHANGED pc
             /\ UNCHANGED raised
          \/ /\ \E e \in Failures("describe_container_instances") :
                   /\ Issue("describe_container_instances", ids, e)
                   /\ Raise(e)
             /\ UNCHANGED <<start, end, failed_container_ids>>
    /\ UNCHANGED <<services, service_names, selected_services, clean_stale, existing_alarms,
                   run, i, todo, locals, cleanLocals, rItems, container_instance_ids,
                   mainVars, existing_logs, days_ago, utcnow, utcoffset, rContainerInstances,
                   remote>>

NextBatch ==
    \/ DescribeServiceChunks
    \/ GetFailedContainerIds

SpecBatch == InitBatch /\ [][NextBatch]_vars

-----------------------------------------------------------------------------
(* aws/log.py: clean_stale_log_streams(services, days_ago), what           *)
(* clean --stale-log-streams runs on the loaded configuration.  Time is    *)
(* counted in hours: a timestamp is the hours since the epoch (the code    *)
(* divides the milliseconds it is given), and 0 stands for a key that the  *)
(* response lacks.                                                         *)

\* most log streams of the remote side
MaxStreams == 3

\* a service with two containers that both log, to two log groups
ServiceTwoLogs ==
    [serviceName |-> NameA, cluster |-> Cluster1, taskDefinition |-> FamilyA,
     task |-> [family |-> FamilyA,
               containerDefinitions |->
                   <<[name |-> <<"s">>, image |-> ImageDeclared,
                      logConfiguration |-> LogConfiguration(GroupEcsA, EcsPrefix)],
                     [name |-> <<"w">>, image |-> ImageDeclared,
                      logConfiguration |-> LogConfiguration(GroupEcsB, EcsPrefix)]>>],
     scale |-> NoScale, alarm |-> NoAlarm, metric |-> NoMetric]

\* the configurations cleaned: one log group; two log groups; a log group
\* named by two services; a container without logConfiguration
StreamConfigs ==
    {<<ServiceB(Cluster1)>>,
     <<ServiceTwoLogs>>,
     <<ServiceB(Cluster1), ServiceB(Cluster2)>>,
     <<ServiceA(LogConfiguration(GroupEcsA, EcsPrefix), NoAlarm)>>}

\* 'ecs/<container name>/<container id>'
LogStreamName(container_id) == <<"e", "c", "s", "/", "w", "/">> \o container_id

\* lastEventTimestamp and creationTime of a stream: neither known; created
\* 75 hours after the epoch and no event; last event at 77; last event at 75
StreamTimes == {<<0, 0>>, <<0, 75>>, <<77, 40>>, <<75, 40>>}

\* the log streams of log group /ecs/b: for each container id at most one
RECURSIVE StreamLists(_)
StreamLists(n) ==
    IF n = 0 THEN {<<>>}
    ELSE LET shorter == StreamLists(n - 1)
         IN shorter \cup
            {Append(l, [logGroupName |-> GroupEcsB,
                        logStreamName |-> LogStreamName(<<ToString(n)>>),
                        lastEventTimestamp |-> tm[1], creationTime |-> tm[2]]) :
                l \in shorter, tm \in StreamTimes}

InitStreams ==
    /\ pc = "_get_existing_logs"
    /\ services \in StreamConfigs
    /\ rItems \in StreamLists(MaxStreams)
    /\ days_ago \in {1, 2}
    /\ utcnow = 100
    /\ utcoffset \in {-2, 0, 2}
    /\ rContainerInstances \in {{}, {<<"1">>}}
    /\ failed_container_ids = <<>>
    /\ existing_logs = <<>>
    /\ container_instance_ids = <<>>
    /\ start = 0
    /\ end = 0
    /\ NoMain
    /\ service_names = <<>>
    /\ selected_services = <<>>
    /\ clean_stale = FALSE
    /\ existing_alarms = <<>>
    /\ raised = "none"
    /\ run = 1
    /\ calls = <<>>
    /\ i = 1
    /\ todo = {}
    /\ defined_log_group_names = {}
    /\ existing_log_group_names = {}
    /\ existing_services = <<>>
    /\ missing_services = <<>>
    /\ existing_policies = <<>>
    /\ missing_metrics = <<>>
    /\ existing_metrics = <<>>
    /\ all_task_definitions = <<>>
    /\ service_task_definitions = <<>>
    /\ slept = 0
    /\ rLogGroups = {GroupEcsA, GroupEcsB}
    /\ rTaskDefs = {}
    /\ rServices = {}
    /\ rTargets = {}
    /\ rPolicies = {}
    /\ rMetrics = {}
    /\ rAlarms = {}

\* the streams describe_log_streams(logStreamNamePrefix='ecs',
\* logGroupName=log_group_name) lists, as the response gives them
StreamsOfGroup(log_group_name) ==
    LET found == SelectSeq(rItems, LAMBDA s :
                     /\ s.logGroupName = log_group_name
                     /\ StartsWith(s.logStreamName, <<"e", "c", "s">>))
    IN [k \in 1..Len(found) |->
           [logStreamName |-> found[k].logStreamName,
            lastEventTimestamp |-> found[k].lastEventTimestamp,
            creationTime |-> found[k].creationTime]]

\* the while-loop of _get_existing_logs for one log group, from the call
\* passing next_token on: log_streams.extend is in the branch of the call
\* without token
RECURSIVE ListLogStreams(_, _, _, _)
ListLogStreams(streams, next_token, acc, ncalls) ==
    LET resp == Page(streams, next_token)
        log_streams == IF next_token # 0 THEN acc ELSE acc \o resp.items
    IN IF resp.nextToken = 0
       THEN [log_streams |-> log_streams, ncalls |-> ncalls + 1]
       ELSE ListLogStreams(streams, resp.nextToken, log_streams, ncalls + 1)

\* log_group_names of _get_existing_logs: the awslogs-group of every
\* container of every service, in loop order
LogGroupNamesOf(service_list) ==
    LET containers == Containers([k \in 1..Len(service_list) |-> service_list[k].task])
    IN [k \in 1..Len(containers) |-> containers[k].logConfiguration.group]

\* container_definition['logConfiguration']['options'] raises KeyError
LacksLogOptions(service_list) ==
    LET containers == Containers([k \in 1..Len(service_list) |-> service_list[k].task])
    IN \E k \in 1..Len(containers) : ~(/\ containers[k].logConfiguration.present
                                         /\ containers[k].logConfiguration.hasOptions)

\* existing_log_streams of _get_existing_logs for the groups named
RECURSIVE ExistingLogsOf(_)
ExistingLogsOf(log_group_names) ==
    IF log_group_names = <<>> THEN <<>>
    ELSE <<[log_group_name |-> Head(log_group_names),
            log_streams |-> ListLogStreams(StreamsOfGroup(Head(log_group_names)), 0, <<>>, 0).log_streams]>>
         \o ExistingLogsOf(Tail(log_group_names))

\* the describe_log_streams calls _get_existing_logs makes for the groups
RECURSIVE LogStreamCalls(_)
LogStreamCalls(log_group_names) ==
    IF log_group_names = <<>> THEN <<>>
    ELSE ListCalls("describe_log_streams", Head(log_group_names),
                   ListLogStreams(StreamsOfGroup(Head(log_group_names)), 0, <<>>, 0).ncalls)
         \o LogStreamCalls(Tail(log_group_names))

\* the streams of a list of logs, each with its group, in loop order
RECURSIVE FlatStreams(_)
FlatStreams(logs) ==
    IF logs = <<>> THEN <<>>
    ELSE [k \in 1..Len(Head(logs).log_streams) |->
             [log_group_name |-> Head(logs).log_group_name, log_stream |-> Head(logs).log_streams[k]]]
         \o FlatStreams(Tail(logs))

\* _get_container_ids: the last '/'-part of every stream name
_get_container_ids(logs) ==
    [k \in 1..Len(FlatStreams(logs)) |-> Last(Split(FlatStreams(logs)[k].log_stream.logStreamName, "/"))]

\* existing_logs = _get_existing_logs(services) and
\* container_instance_ids = _get_container_ids(existing_logs)
GetExistingLogs ==
    /\ pc = "_get_existing_logs"
    /\ IF LacksLogOptions(services)
       THEN /\ Raise("KeyError")
            /\ UNCHANGED <<calls, existing_logs, container_instance_ids, start, end>>
       ELSE LET made == LogStreamCalls(LogGroupNamesOf(services))
                logs == ExistingLogsOf(LogGroupNamesOf(services))
            IN \/ /\ calls' = calls \o made
                  /\ existing_logs' = logs
                  /\ container_instance_ids' = _get_container_ids(logs)
                  /\ start' = 0
                  /\ end' = 100
                  /\ pc' = "_get_failed_container_ids"
                  /\ UNCHANGED raised
               \/ \E k \in 1..Len(made), e \in Failures("describe_log_streams") :
                     /\ calls' = calls \o [j \in 1..k |-> IF j = k THEN CallRecord(made[j].op, made[j].arg, e)
                                                                   ELSE made[j]]
                     /\ Raise(e)
                     /\ UNCHANGED <<existing_logs, container_instance_ids, start, end>>
    /\ UNCHANGED <<services, service_names, selected_services, clean_stale, existing_alarms,
                   run, i, todo, locals, cleanLocals, rItems, mainVars,
                   failed_container_ids, days_ago, utcnow, utcoffset, rContainerInstances, remote>>

\* datetime.fromtimestamp(timestamp): the naive local time of the host
fromtimestamp(timestamp) == timestamp + utcoffset

\* existing_log_stream.get('lastEventTimestamp', existing_log_stream.get('creationTime'))
last_event_time(log_stream) ==
    IF log_stream.lastEventTimestamp # 0 THEN log_stream.lastEventTimestamp
    ELSE log_stream.creationTime

\* what the remote answers to delete_log_stream
DeleteLogStreamAnswers(log_group_name, log_stream_name) ==
    (IF \E s \in Range(rItems) : s.logGroupName = log_group_name /\ s.logStreamName = log_stream_name
     THEN {"ok"} ELSE {"ResourceNotFoundException"})
        \cup Failures("delete_log_stream")

\* one pass of the inner for-loop of _delete_log_streams
DeleteLogStreams ==
    /\ pc = "_delete_log_streams"
    /\ LET flat == FlatStreams(existing_logs)
       IN IF i > Len(flat)
          THEN /\ pc' = "return"
               /\ i' = 1
               /\ UNCHANGED <<raised, calls, rItems>>
          ELSE LET existing_log_stream == flat[i].log_stream
                   container_id == Last(Split(existing_log_stream.logStreamName, "/"))
               IN IF \/ container_id \notin Range(failed_container_ids)
                     \/ last_event_time(existing_log_stream) = 0
                     \/ utcnow - 24 * days_ago < fromtimestamp(last_event_time(existing_log_stream))
                  THEN /\ i' = i + 1
                       /\ UNCHANGED <<pc, raised, calls, rItems>>
                  ELSE \E res \in DeleteLogStreamAnswers(flat[i].log_group_name,
                                                          existing_log_stream.logStreamName) :
                          /\ Issue("delete_log_stream",
                                   [logGroupName |-> flat[i].log_group_name,
                                    logStreamName |-> existing_log_stream.logStreamName], res)
                          /\ IF res = "ok"
                             THEN /\ rItems' = SelectSeq(rItems, LAMBDA s :
                                        ~(/\ s.logGroupName = flat[i].log_group_name
                                          /\ s.logStreamName = existing_log_stream.logStreamName))
                                  /\ i' = i + 1
                                  /\ UNCHANGED <<pc, raised>>
                             ELSE /\ Raise(res)
                                  /\ UNCHANGED <<i, rItems>>
    /\ UNCHANGED <<services, service_names, selected_services, clean_stale, existing_alarms,
                   run, todo, locals, cleanLocals, container_instance_ids, start, end,
                   mainVars, streamVars, remote>>

NextStreams ==
    \/ GetExistingLogs
    \/ GetFailedContainerIds
    \/ DeleteLogStreams

SpecStreams == InitStreams /\ [][NextStreams]_vars

-----------------------------------------------------------------------------
(* cli.py: main, the clean subcommand with its flags --stale-tasks and     *)
(* --stale-log-streams.                                                    *)

\* if args.clean_stale_tasks: task.clean_stale_tasks(); return
\* if args.clean_stale_log_streams: services = _load_config(config_path); ...; return
\* with neither flag no other subcommand matches and main returns
MainCleanTarget ==
    IF clean_stale_tasks THEN "clean_stale_tasks"
    ELSE IF clean_stale_log_streams THEN "_load_config"
    ELSE "return"

\* main, clean subcommand: the branch taken
MainClean ==
    /\ pc = "main"
    /\ subparser_name = "clean"
    /\ pc' = MainCleanTarget
    /\ UNCHANGED <<services, service_names, selected_services, clean_stale, existing_alarms,
                   raised, run, calls, i, todo, locals, cleanLocals, batchVars, mainVars,
                   streamVars, remote>>

InitCleanCommand ==
    /\ pc = "main"
    /\ subparser_name = "clean"
    /\ clean_stale_tasks \in BOOLEAN
    /\ clean_stale_log_streams \in BOOLEAN
    /\ yaml_dicts \in {<<>>, <<ServiceB(Cluster1)>>}
    /\ image_url = NoneStr
    /\ names_given = TRUE
    /\ task_definition = NoneStr
    /\ task_dict = <<>>
    /\ rItems \in StreamLists(1)
    /\ days_ago = 1
    /\ utcnow = 100
    /\ utcoffset = 0
    /\ rContainerInstances = {}
    /\ failed_container_ids = <<>>
    /\ existing_logs = <<>>
    /\ container_instance_ids = <<>>
    /\ start = 0
    /\ end = 0
    /\ services = <<>>
    /\ service_names = <<>>
    /\ selected_services = <<>>
    /\ clean_stale = FALSE
    /\ existing_alarms = <<>>
    /\ raised = "none"
    /\ run = 1
    /\ calls = <<>>
    /\ i = 1
    /\ todo = {}
    /\ defined_log_group_names = {}
    /\ existing_log_group_names = {}
    /\ existing_services = <<>>
    /\ missing_services = <<>>
    /\ existing_policies = <<>>
    /\ missing_metrics = <<>>
    /\ existing_metrics = <<>>
    /\ all_task_definitions = <<>>
    /\ service_task_definitions = <<>>
    /\ slept = 0
    /\ rLogGroups = {GroupEcsA, GroupEcsB}
    /\ rTaskDefs \in {{[family |-> FamilyA, revision |-> 2]}, CleanTaskDefs}
    /\ rServices = {[cluster |-> Cluster1, serviceName |-> NameA,
                     taskDefinition |-> [family |-> FamilyA, revision |-> 2]]}
    /\ rTargets = {}
    /\ rPolicies = {}
    /\ rMetrics = {}
    /\ rAlarms = {}

NextCleanCommand ==
    \/ MainClean
    \/ NextClean
    \/ LoadConfig
    \/ NextStreams

SpecCleanCommand == InitCleanCommand /\ [][NextCleanCommand]_vars

-----------------------------------------------------------------------------
(* Properties.  The call log of a run is read through these.               *)

\* the positions of the log holding a call of one of the operations ops
CallsOf(ops) == {k \in 1..Len(calls) : calls[k].op \in ops}

\* the arguments of the calls of operation op, in call order
ArgsOf(op) ==
    LET made == SelectSeq(calls, LAMBDA c : c.op = op)
    IN [k \in 1..Len(made) |-> made[k].arg]

\* list s is the beginning of list t
IsPrefix(s, t) == Len(s) <= Len(t) /\ SubSeq(t, 1, Len(s)) = s

\* the operations of the scalable-target, scaling-policy, metric and alarm steps
SetupOps ==
    {"register_scalable_target", "deregister_scalable_target", "describe_scaling_policies",
     "put_scaling_policy", "list_metrics", "put_metric_data", "put_metric_alarm"}

\* the task definition family of the selected service with key <<cluster, name>>
FamilyOfService(cluster, name) ==
    (CHOOSE s \in Range(selected_services) : s.cluster = cluster /\ s.serviceName = name).taskDefinition

\* a register_task_definition call for family was answered before position k
RegisteredBefore(family, k) ==
    \E j \in 1..(k - 1) :
        /\ calls[j].op = "register_task_definition"
        /\ calls[j].arg.family = family
        /\ calls[j].res = "ok"

\* a call op(arg) was issued before position k
IssuedBefore(op, arg, k) ==
    \E j \in 1..(k - 1) : calls[j].op = op /\ calls[j].arg = arg

\* before position k the scalable-target, scaling-policy, metric and alarm
\* steps have run for every selected service
SetupCompleteBefore(k) ==
    /\ \A n \in 1..Len(selected_services) :
          LET s == selected_services[n]
          IN /\ IF s.scale.present
                THEN IssuedBefore("register_scalable_target", ResourceId(s), k)
                ELSE IssuedBefore("deregister_scalable_target", ResourceId(s), k)
             /\ \A m \in 1..Len(s.scale.policies) :
                   \E j \in 1..(k - 1) :
                      /\ calls[j].op = "put_scaling_policy"
                      /\ calls[j].arg.PolicyName = s.scale.policies[m]
                      /\ calls[j].arg.ResourceId = ResourceId(s)
             /\ s.alarm.present =>
                   \E j \in 1..(k - 1) :
                      /\ calls[j].op = "put_metric_alarm"
                      /\ calls[j].arg.AlarmName = s.alarm.AlarmName
    /\ \E j \in 1..(k - 1) : calls[j].op = "list_metrics" /\ calls[j].res = "ok"

\* C1 as stated: every create_service and every update_service call comes
\* after the registration of the service's task definition and after the
\* scalable-target, scaling-policy, metric and alarm steps have completed.
C1_CreateAndUpdateAfterSetup ==
    /\ \A k \in CallsOf({"create_service"}) :
          /\ RegisteredBefore(FamilyOfService(calls[k].arg[1], calls[k].arg[2]), k)
          /\ SetupCompleteBefore(k)
    /\ \A k \in CallsOf({"update_service"}) :
          /\ RegisteredBefore(FamilyOfService(calls[k].arg.cluster, calls[k].arg.service), k)
          /\ SetupCompleteBefore(k)

\* C1 amended: every create_service call comes after the registration of the
\* service's task definition and before every call of the scalable-target,
\* scaling-policy, metric and alarm steps; every update_service call comes
\* after that registration and after those steps have completed, and only
\* update_service calls follow it.
C1_CreateBeforeSetupUpdateAfter ==
    /\ \A k \in CallsOf({"create_service"}) :
          /\ RegisteredBefore(FamilyOfService(calls[k].arg[1], calls[k].arg[2]), k)
          /\ \A j \in 1..(k - 1) : calls[j].op \notin SetupOps
    /\ \A k \in CallsOf({"update_service"}) :
          /\ RegisteredBefore(FamilyOfService(calls[k].arg.cluster, calls[k].arg.service), k)
          /\ SetupCompleteBefore(k)
          /\ \A j \in (k + 1)..Len(calls) : calls[j].op = "update_service"

\* a run that created a service, set up scaling and an alarm, and updated
C1_Witness ==
    /\ pc = "return"
    /\ CallsOf({"create_service"}) # {}
    /\ CallsOf({"put_scaling_policy"}) # {}
    /\ CallsOf({"put_metric_alarm"}) # {}
    /\ CallsOf({"deregister_scalable_target"}) # {}
    /\ CallsOf({"update_service"}) # {}

\* the program positions after the creation loop of _create_missing_services
AfterCreation ==
    {"register_scalable_targets", "create_scaling_policies", "_create_or_update_all_policies",
     "create_metrics", "_create_missing_metrics", "create_scaling_alarms",
     "_create_or_update_alarms", "_update_services", "return"}

\* the keys of the selected services whose name the listing did not return,
\* in list order
AbsentSelected ==
    LET absent == SelectSeq(selected_services,
                            LAMBDA s : \A n \in 1..Len(existing_services) :
                                           existing_services[n] # s.serviceName)
    IN [k \in 1..Len(absent) |-> <<absent[k].cluster, absent[k].serviceName>>]

\* C2: _create_missing_services issues create_service once for each entry of
\* the selected services whose name is absent from the existing names, in list
\* order, and for no other service: the create_service calls made so far are
\* the beginning of that list, and all of it once the creation loop is left.
C2_CreateExactlyMissing ==
    /\ IsPrefix(ArgsOf("create_service"), AbsentSelected)
    /\ pc \in AfterCreation => ArgsOf("create_service") = AbsentSelected

\* the example of the specification: a and b selected in cluster c1, a exists
\* and b does not, and only b was created
C2_Witness ==
    /\ pc \in AfterCreation
    /\ Range(service_names) = {NameA, NameB}
    /\ \A k \in 1..Len(selected_services) : selected_services[k].cluster = Cluster1
    /\ Range(existing_services) = {NameA}
    /\ ArgsOf("create_service") = <<<<Cluster1, NameB>>>>

\* C3: when a deploy run completes, the update_service calls of the run are
\* exactly one per entry of the selected services, in list order, each with
\* forceNewDeployment=True and each answered, whether or not the service was
\* created in this run.
C3_OneForcedUpdatePerService ==
    pc = "return" =>
        /\ ArgsOf("update_service") =
              [k \in 1..Len(selected_services) |->
                  [cluster |-> selected_services[k].cluster,
                   service |-> selected_services[k].serviceName,
                   forceNewDeployment |-> TRUE]]
        /\ \A k \in CallsOf({"update_service"}) : calls[k].res = "ok"
        /\ Len(selected_services) = Len(service_names)

\* a completed run that created one of its two services and not the other
C3_Witness ==
    /\ pc = "return"
    /\ Len(selected_services) = 2
    /\ Len(ArgsOf("create_service")) = 1
    /\ Len(ArgsOf("update_service")) = 2

\* the service names of the loaded configuration
ConfiguredNames == {services[k].serviceName : k \in 1..Len(services)} \ {NoneStr}

\* C4: when a requested name is absent from the loaded configuration, deploy
\* raises AeropressException and no remote call is issued, whatever the other
\* requested names are.
C4_UnknownNameNoCall ==
    (\E k \in 1..Len(service_names) : service_names[k] \notin ConfiguredNames) =>
        /\ calls = <<>>
        /\ pc \in {"deploy", "exit"}
        /\ pc = "exit" => raised = "AeropressException"

\* deploy has raised for a request naming a configured and an unknown service
C4_Witness ==
    /\ pc = "exit"
    /\ raised = "AeropressException"
    /\ service_names = <<NameA, NameZ>>

\* the update_service calls are one per selected entry, in list order
OneUpdatePerService ==
    ArgsOf("update_service") =
        [k \in 1..Len(selected_services) |->
            [cluster |-> selected_services[k].cluster,
             service |-> selected_services[k].serviceName,
             forceNewDeployment |-> TRUE]]

\* the register_task_definition calls are one per task, in list order
OneRegistrationPerTask ==
    [k \in 1..Len(ArgsOf("register_task_definition")) |-> ArgsOf("register_task_definition")[k].family] =
        [k \in 1..Len(selected_services) |-> selected_services[k].task.family]

\* C5 as stated: the second of two runs with unchanged configuration issues
\* no create call (create_service, create_log_group, metric-creating
\* put_metric_data) and no delete or deregister call, and when it completes
\* it has issued one update per service and one registration per task.
C5_SecondRunNoCreateNoRemoval ==
    run = 2 =>
        /\ CallsOf({"create_service", "create_log_group", "put_metric_data"}) = {}
        /\ CallsOf({"delete_log_group", "delete_alarms", "delete_scaling_policy",
                    "delete_log_stream", "deregister_task_definition",
                    "deregister_scalable_target"}) = {}
        /\ pc = "return" => OneUpdatePerService /\ OneRegistrationPerTask

\* the resource ids of the selected services without a scale configuration
UnscaledSelected ==
    LET unscaled == SelectSeq(selected_services, LAMBDA s : ~s.scale.present)
    IN [k \in 1..Len(unscaled) |-> ResourceId(unscaled[k])]

\* C5 amended: the second run issues no create_service and no put_metric_data
\* call and no delete_log_group, delete_alarms, delete_scaling_policy or
\* deregister_task_definition call, and when it completes it has issued one
\* update per selected service and one registration per task; it does issue
\* deregister_scalable_target again, once for every selected service without
\* a scale configuration, and it issues create_log_group again only for a
\* defined group whose name is not of the three-part form "<x>/ecs/<y>" that
\* the listing of existing groups keeps, and that call fails.
C5_SecondRunRepeatsOnlyDeregistration ==
    run = 2 =>
        /\ CallsOf({"create_service", "put_metric_data"}) = {}
        /\ CallsOf({"delete_log_group", "delete_alarms", "delete_scaling_policy",
                    "delete_log_stream", "deregister_task_definition"}) = {}
        /\ \A k \in CallsOf({"create_log_group"}) :
              /\ \/ Len(Split(calls[k].arg, "/")) # 3
                 \/ Split(calls[k].arg, "/")[2] # <<"e", "c", "s">>
              /\ calls[k].res # "ok"
        /\ IsPrefix(ArgsOf("deregister_scalable_target"), UnscaledSelected)
        /\ pc \in AfterCreation \ {"register_scalable_targets"} =>
              ArgsOf("deregister_scalable_target") = UnscaledSelected
        /\ pc = "return" => OneUpdatePerService /\ OneRegistrationPerTask

\* a second run that completed, for two services, one without scale
\* configuration, whose scalable target it deregistered again
C5_Witness ==
    /\ run = 2
    /\ pc = "return"
    /\ Len(selected_services) = 2
    /\ CallsOf({"deregister_scalable_target"}) # {}
    /\ CallsOf({"register_scalable_target"}) # {}

\* a selected service has an alarm whose name does not start with 'ecs:'
BadAlarmSelected ==
    \E k \in 1..Len(selected_services) :
        /\ selected_services[k].alarm.present
        /\ \/ Len(selected_services[k].alarm.AlarmName) < 4
           \/ SubSeq(selected_services[k].alarm.AlarmName, 1, 4) # <<"e", "c", "s", ":">>

\* C6: when a selected service's alarm name does not start with 'ecs:', the
\* run ends in AeropressException and no remote call was attempted before it.
C6_BadAlarmNoCall ==
    BadAlarmSelected =>
        /\ pc # "return"
        /\ raised = "AeropressException" => calls = <<>>

\* a container of a selected task has log options whose group does not start
\* with '/ecs' or whose stream prefix is not 'ecs'
BadLogSelected ==
    \E k \in 1..Len(selected_services) :
        \E c \in 1..Len(selected_services[k].task.containerDefinitions) :
            LET log == selected_services[k].task.containerDefinitions[c].logConfiguration
            IN /\ log.present
               /\ log.hasOptions
               /\ \/ Len(log.group) < 4
                  \/ SubSeq(log.group, 1, 4) # <<"/", "e", "c", "s">>
                  \/ log.prefix # <<"e", "c", "s">>

DeregisterCalls(td) ==
    {k \in CallsOf({"deregister_task_definition"}) : calls[k].arg = td}

\* those of them that were throttled
ThrottledCalls(td) ==
    {k \in DeregisterCalls(td) : calls[k].res = "ThrottlingException"}

\* C8: a throttled deregistration is repeated after a sleep of 5 seconds; it
\* is given up when 20 seconds have been slept, so after the fourth throttled
\* attempt; nothing is raised, the loop goes on to the next task definition,
\* and the seconds slept count from 0 again for it.
C8_ThrottledRetriesGiveUp ==
    /\ raised # "ThrottlingException"
    /\ \A n \in 1..Len(all_task_definitions) :
          /\ Cardinality(ThrottledCalls(all_task_definitions[n])) <= 4
          /\ Cardinality(ThrottledCalls(all_task_definitions[n])) = 4 =>
                /\ n < i
                /\ \A k \in DeregisterCalls(all_task_definitions[n]) :
                      \E t \in ThrottledCalls(all_task_definitions[n]) : k <= t
    /\ pc = "deregister_task_definition" =>
          /\ slept = 5 * Cardinality(ThrottledCalls(all_task_definitions[i]))
          /\ slept < 20

\* a task definition was given up after four attempts, all throttled, and
\* the next stale one is being retried after its first throttled attempt
C8_Witness ==
    /\ pc = "deregister_task_definition"
    /\ slept = 5
    /\ raised = "none"
    /\ \E n \in 1..(i - 1) :
          /\ Cardinality(DeregisterCalls(all_task_definitions[n])) = 4
          /\ ThrottledCalls(all_task_definitions[n]) = DeregisterCalls(all_task_definitions[n])

\* C9: after a deregister_task_definition call failed with a client error
\* other than ThrottlingException, no further call is issued for the same
\* task definition.
C9_OtherErrorNotRetried ==
    \A k \in CallsOf({"deregister_task_definition"}) :
        (calls[k].res \in ClientErrorCodes \ {"ThrottlingException"}) =>
            \A j \in CallsOf({"deregister_task_definition"}) :
                j > k => calls[j].arg # calls[k].arg

\* the two failures the program is said to tolerate
Tolerated(call) ==
    \/ call.op = "deregister_task_definition" /\ call.res = "ThrottlingException"
    \/ call.op = "deregister_scalable_target" /\ call.res = "ObjectNotFoundException"

\* C10: a remote call failure other than the two tolerated ones ends the run
\* with that error: the failed call is the last call of the run.
C10_FailurePropagates ==
    \A k \in 1..Len(calls) :
        (calls[k].res # "ok" /\ ~Tolerated(calls[k])) =>
            /\ k = Len(calls)
            /\ pc = "exit"
            /\ raised = calls[k].res

\* the task definitions some service of some cluster runs
ReferencedTaskDefinitions == {s.taskDefinition : s \in rServices}

\* the task definitions that were ACTIVE when the clean command started
InitiallyActive ==
    rTaskDefs \cup {calls[k].arg : k \in {j \in CallsOf({"deregister_task_definition"}) :
                                              calls[j].res = "ok"}}

\* the task definitions deregister_task_definition was called for
Deregistered == {calls[k].arg : k \in CallsOf({"deregister_task_definition"})}

OutsideAlarmConvention(alarm_name) == ~StartsWith(alarm_name, <<"e", "c", "s", ":">>)

\* a log group name outside the naming convention '<x>/ecs/<y>'
OutsideLogGroupConvention(name) ==
    ~(Len(Split(name, "/")) = 3 /\ Split(name, "/")[2] = <<"e", "c", "s">>)

\* C12: with or without clean_stale, every name passed to delete_alarms
\* starts with 'ecs:' and every name passed to delete_log_group has three
\* '/'-separated segments, the second being 'ecs'; no step removes an alarm
\* or a log group whose name is outside these conventions.
C12_OnlyConventionalNamesDeleted ==
    /\ [](/\ \A k \in CallsOf({"delete_alarms"}) :
               \A j \in 1..Len(calls[k].arg) : ~OutsideAlarmConvention(calls[k].arg[j])
          /\ \A k \in CallsOf({"delete_log_group"}) : ~OutsideLogGroupConvention(calls[k].arg))
    /\ [][/\ \A name \in rLogGroups : OutsideLogGroupConvention(name) => name \in rLogGroups'
          /\ \A a \in rAlarms : OutsideAlarmConvention(a.AlarmName) =>
                \E b \in rAlarms' : b.AlarmName = a.AlarmName]_vars

\* a run with clean_stale that deleted a log group and an alarm while log
\* groups and an alarm outside the conventions, none of them configured,
\* are still there
C12_Witness ==
    /\ clean_stale
    /\ \E k \in CallsOf({"delete_log_group"}) : calls[k].res = "ok"
    /\ \E k \in CallsOf({"delete_alarms"}) : calls[k].res = "ok"
    /\ {GroupEcsa, GroupVarA, GroupOther} \subseteq rLogGroups \ defined_log_group_names
    /\ \E a \in rAlarms : a.AlarmName = AlarmCpuA

\* the pages the remote cuts a listing of n items into (an empty listing is
\* one page without items)
NumPages(n) == IF n = 0 THEN 1 ELSE (n + PageSize - 1) \div PageSize

\* the name a service arn of the listing ends with
NameOfArn(service_arn) ==
    CHOOSE name \in {NameA, NameB, NameZ} :
        \E cluster \in {Cluster1, Cluster2} : service_arn = ServiceArn(cluster, name)

\* C13: a lister makes one call per page of the listing (every call after
\* the first passes the token of the response before it, and the response
\* without token is the last) and returns the items of all pages, in page
\* order, that pass its naming filter; the log group names come as a set.
C13_ListersLoseNothing ==
    pc = "return" =>
        /\ Len(calls) = NumPages(Len(rItems))
        /\ calls[1].op = "describe_alarms" =>
              existing_alarms =
                 SelectSeq(rItems, LAMBDA alarm : ~OutsideAlarmConvention(alarm.AlarmName))
        /\ calls[1].op = "describe_log_groups" =>
              existing_log_group_names =
                 {rItems[k] : k \in {j \in 1..Len(rItems) : ~OutsideLogGroupConvention(rItems[j])}}
        /\ calls[1].op = "describe_scaling_policies" => existing_policies = rItems
        /\ calls[1].op = "list_services" =>
              existing_services = [k \in 1..Len(rItems) |-> NameOfArn(rItems[k])]
        /\ calls[1].op = "list_task_definitions" => all_task_definitions = rItems
        /\ calls[1].op = "list_metrics" => existing_metrics = rItems

\* a listing of three pages, with a name outside the filter on the second
\* page, has been read by the alarm lister; the other listers have read
\* three pages too
C13_Witness ==
    /\ pc = "return"
    /\ Len(calls) = 3
    /\ calls[1].op = "describe_alarms"
    /\ Len(rItems) = 5
    /\ rItems[3].AlarmName = AlarmCpuA
    /\ Len(existing_alarms) = 4

\* C14: no describe_services call is passed more than 10 services and no
\* describe_container_instances call more than 100 container instances,
\* whatever the length of the list that is cut up.
C14_BatchLimits ==
    /\ \A k \in CallsOf({"describe_services"}) : Len(calls[k].arg) <= 10
    /\ \A k \in CallsOf({"describe_container_instances"}) : Len(calls[k].arg) <= 100

\* 205 container ids have been described in three calls, of 100, 100 and 5
C14_Witness ==
    /\ pc = "return"
    /\ Len(container_instance_ids) = 205
    /\ Len(calls) = 3
    /\ Len(calls[1].arg) = 100
    /\ Len(calls[2].arg) = 100
    /\ calls[3].arg = [k \in 1..5 |-> <<ToString(200 + k)>>]

\* the log groups created in this run
CreatedLogGroups ==
    {calls[k].arg : k \in {j \in CallsOf({"create_log_group"}) : calls[j].res = "ok"}}

\* the log groups deleted in this run
DeletedLogGroups ==
    {calls[k].arg : k \in {j \in CallsOf({"delete_log_group"}) : calls[j].res = "ok"}}

\* C15: with defined and existing the two name sets of handle_logs, the
\* missing set it creates from (what is created and what is left to create)
\* and the stale set it deletes from (what is deleted and what is left to
\* delete) satisfy missing \cup (defined \cap existing) = defined,
\* stale \cup (defined \cap existing) = existing, and missing \cap stale = {}.
C15_MissingAndStalePartition ==
    LET defined == defined_log_group_names
        existing == existing_log_group_names
    IN /\ pc = "_create_missing_log_groups" =>
             (todo \cup CreatedLogGroups) \cup (defined \cap existing) = defined
       /\ pc = "_clean_stale_log_groups" =>
             /\ CreatedLogGroups \cup (defined \cap existing) = defined
             /\ (todo \cup DeletedLogGroups) \cup (defined \cap existing) = existing
             /\ CreatedLogGroups \cap (todo \cup DeletedLogGroups) = {}

\* handle_logs has created a missing group, found a defined group existing
\* and is about to delete a stale one
C15_Witness ==
    /\ pc = "_clean_stale_log_groups"
    /\ CreatedLogGroups # {}
    /\ defined_log_group_names \cap existing_log_group_names # {}
    /\ todo # {}
    /\ DeletedLogGroups = {}

\* the register_scalable_target and deregister_scalable_target calls of the
\* run, in call order, without their outcomes
TargetCalls ==
    LET made == SelectSeq(calls, LAMBDA c : c.op \in {"register_scalable_target",
                                                      "deregister_scalable_target"})
    IN [k \in 1..Len(made) |-> [op |-> made[k].op, arg |-> made[k].arg]]

\* one call per service passed to update_all: a registration if the service
\* has a scale configuration, a deregistration if it has none
TargetCallsDue ==
    [k \in 1..Len(filtered_selected_services) |->
        [op |-> IF filtered_selected_services[k].scale.present
                THEN "register_scalable_target" ELSE "deregister_scalable_target",
         arg |-> ResourceId(filtered_selected_services[k])]]

\* C16: register_scalable_targets calls register_scalable_target for every
\* service with a scale configuration and deregister_scalable_target for
\* every service without, in list order; a deregistration that fails with
\* ObjectNotFoundException raises nothing and the loop goes on.
C16_RegisterOrDeregisterEveryService ==
    /\ IsPrefix(TargetCalls, TargetCallsDue)
    /\ pc \in AfterCreation \ {"register_scalable_targets"} => TargetCalls = TargetCallsDue
    /\ raised # "ObjectNotFoundException"
    /\ \A k \in CallsOf({"deregister_scalable_target"}) :
          (calls[k].res = "ObjectNotFoundException" /\ k = Len(calls)) => pc # "exit"

\* a deregistration failed with ObjectNotFoundException and the service
\* after it in the list was registered
C16_Witness ==
    \E k \in CallsOf({"deregister_scalable_target"}) :
        /\ calls[k].res = "ObjectNotFoundException"
        /\ k < Len(calls)
        /\ calls[k + 1].op = "register_scalable_target"
        /\ calls[k + 1].res = "ok"

\* the (PolicyName, ResourceId) pairs of the policies configured for the
\* services passed to update_all, in configuration order
ConfiguredPolicies ==
    LET RECURSIVE Of(_)
        Of(service_list) ==
            IF service_list = <<>> THEN <<>>
            ELSE [j \in 1..Len(Head(service_list).scale.policies) |->
                     [PolicyName |-> Head(service_list).scale.policies[j],
                      ResourceId |-> ResourceId(Head(service_list))]]
                 \o Of(Tail(service_list))
    IN Of(filtered_selected_services)

\* the program positions from the end of _clean_stale_policies to the next
\* fetch of the existing policies
PoliciesCleaned ==
    {"_create_or_update_all_policies", "create_metrics", "_create_missing_metrics",
     "create_scaling_alarms", "_clean_stale_alarms", "get_existing_scaling_policies"}

\* the program positions from the end of create_scaling_policies
PoliciesPut == (PoliciesCleaned \ {"_create_or_update_all_policies"}) \cup
               {"_create_or_update_alarms", "_update_services", "return"}

\* C17: delete_scaling_policy is only called with clean_stale set, only for
\* an existing policy whose (PolicyName, ResourceId) pair is that of no
\* configured policy, and by the end of the clean-up for every such policy;
\* every deletion precedes every put_scaling_policy call, and
\* create_scaling_policies ends having put every configured policy.
C17_StalePoliciesDeletedThenAllPut ==
    /\ ~clean_stale => CallsOf({"delete_scaling_policy"}) = {}
    /\ \A k \in CallsOf({"delete_scaling_policy"}) :
          /\ calls[k].arg \notin Range(ConfiguredPolicies)
          /\ pc \in PoliciesCleaned \cup {"_clean_stale_policies"} =>
                \E p \in Range(existing_policies) :
                   calls[k].arg = [PolicyName |-> p.PolicyName, ResourceId |-> p.ResourceId]
          /\ \A j \in CallsOf({"put_scaling_policy"}) : k < j
    /\ (clean_stale /\ pc \in PoliciesCleaned) =>
          Range(ArgsOf("delete_scaling_policy")) =
             {[PolicyName |-> p.PolicyName, ResourceId |-> p.ResourceId] :
                 p \in Range(existing_policies)} \ Range(ConfiguredPolicies)
    /\ pc \in PoliciesPut =>
          [k \in 1..Len(ArgsOf("put_scaling_policy")) |->
              [PolicyName |-> ArgsOf("put_scaling_policy")[k].PolicyName,
               ResourceId |-> ArgsOf("put_scaling_policy")[k].ResourceId]] = ConfiguredPolicies

\* two stale policies, one of the passed service and one of another
\* service, were deleted, a configured policy that existed was kept, and
\* both configured policies were put
C17_Witness ==
    /\ clean_stale
    /\ pc = "create_metrics"
    /\ Len(ArgsOf("delete_scaling_policy")) = 2
    /\ Len(ArgsOf("put_scaling_policy")) = 2
    /\ \E p \in Range(existing_policies) :
          [PolicyName |-> p.PolicyName, ResourceId |-> p.ResourceId] \in Range(ConfiguredPolicies)

\* the alarm names of the services passed to create_scaling_alarms
PassedAlarmNames ==
    {filtered_selected_services[k].alarm.AlarmName :
        k \in {j \in 1..Len(filtered_selected_services) : filtered_selected_services[j].alarm.present}}

\* the names of the live alarms that start with 'ecs:' and are the alarm
\* name of no passed service
LiveStaleAlarmNames ==
    {a.AlarmName : a \in {b \in rAlarms : /\ StartsWith(b.AlarmName, <<"e", "c", "s", ":">>)
                                          /\ b.AlarmName \notin PassedAlarmNames}}

\* C18: delete_alarms is called only with clean_stale, at most once and
\* before every put_metric_alarm; the step of _clean_stale_alarms makes no
\* call when no live alarm starts with 'ecs:' without being the alarm name
\* of a passed service, and otherwise makes one delete_alarms call that
\* names exactly those alarms, each once.
C18_StaleAlarmsDeletedInOneCall ==
    /\ [](/\ ~clean_stale => CallsOf({"delete_alarms"}) = {}
          /\ Cardinality(CallsOf({"delete_alarms"})) <= 1
          /\ \A k \in CallsOf({"delete_alarms"}) :
                /\ calls[k].arg # <<>>
                /\ \A j \in CallsOf({"put_metric_alarm"}) : k < j)
    /\ [][pc = "_clean_stale_alarms" =>
             IF LiveStaleAlarmNames = {}
             THEN calls' = calls
             ELSE /\ Len(calls') = Len(calls) + 1
                  /\ calls'[Len(calls')].op = "delete_alarms"
                  /\ Range(calls'[Len(calls')].arg) = LiveStaleAlarmNames
                  /\ Len(calls'[Len(calls')].arg) = Cardinality(LiveStaleAlarmNames)]_vars

\* a run with clean_stale whose single delete_alarms call named the old
\* alarm only, while the alarm of the passed service and the alarm outside
\* the convention stayed, and the alarm of the service was put afterwards
C18_Witness ==
    /\ clean_stale
    /\ \E k \in CallsOf({"delete_alarms"}) :
          /\ calls[k].arg = <<AlarmEcsOld>>
          /\ calls[k].res = "ok"
          /\ \E j \in CallsOf({"put_metric_alarm"}) : k < j /\ calls[j].arg.AlarmName = AlarmEcsA
    /\ AlarmEcsA \in PassedAlarmNames
    /\ \E a \in rAlarms : a.AlarmName = AlarmCpuA

\* arn is what the policy name of an alarm of service_dict resolves to: the
\* PolicyARN of the live policy of that name on the service's resource id,
\* the empty string when there is none
ResolvedTo(arn, policy_name, service_dict) ==
    LET matching == {p \in rPolicies : /\ p.PolicyName = policy_name
                                       /\ p.ResourceId = ResourceId(service_dict)}
    IN IF matching = {} THEN arn = <<>> ELSE arn \in {p.PolicyARN : p \in matching}

\* the passed services that have an alarm, in list order
PassedAlarmServices ==
    SelectSeq(filtered_selected_services, LAMBDA sd : sd.alarm.present)

\* C19: the k-th put_metric_alarm carries the alarm of the k-th passed
\* service that has one, each entry of OKActions and AlarmActions being
\* the PolicyARN of the live policy with that name and the resource id
\* service/<cluster>/<serviceName>, or the empty string when no live policy
\* matches; a run that ends without a failed remote call has put every
\* alarm.
C19_ActionsResolvedOrEmpty ==
    LET puts == ArgsOf("put_metric_alarm")
    IN /\ Len(puts) <= Len(PassedAlarmServices)
       /\ \A k \in 1..Len(puts) :
             LET sd == PassedAlarmServices[k]
             IN /\ puts[k].AlarmName = sd.alarm.AlarmName
                /\ Len(puts[k].OKActions) = Len(sd.alarm.OKActions)
                /\ Len(puts[k].AlarmActions) = Len(sd.alarm.AlarmActions)
                /\ \A j \in 1..Len(sd.alarm.OKActions) :
                      ResolvedTo(puts[k].OKActions[j], sd.alarm.OKActions[j], sd)
                /\ \A j \in 1..Len(sd.alarm.AlarmActions) :
                      ResolvedTo(puts[k].AlarmActions[j], sd.alarm.AlarmActions[j], sd)
       /\ (pc = "return" /\ raised = "none") => Len(puts) = Len(PassedAlarmServices)

\* a finished run that put an alarm whose OKActions name resolved to the
\* arn of a live policy and whose AlarmActions name matched no live policy
C19_Witness ==
    /\ pc = "return"
    /\ raised = "none"
    /\ \E k \in CallsOf({"put_metric_alarm"}) :
          /\ calls[k].res = "ok"
          /\ calls[k].arg.AlarmActions = <<NoneStr>>
          /\ calls[k].arg.OKActions =
                <<Policy(PolicyDown, ResourceId([cluster |-> Cluster1, serviceName |-> NameA])).PolicyARN>>
    /\ \E p \in rPolicies : p.PolicyName = PolicyUp

\* the names of the answered calls of operation op on log groups
LogGroupsOf(op) ==
    {IF op = "put_retention_policy" THEN calls[k].arg.logGroupName ELSE calls[k].arg :
        k \in {j \in CallsOf({op}) : calls[j].res = "ok"}}

\* C20: handle_logs calls create_log_group only for defined names that the
\* existing set lacks, put_retention_policy only with 7 days, for defined
\* names and after every create_log_group, and delete_log_group only with
\* cleanup requested, for existing names that are not defined and after
\* every put_retention_policy; no name is passed twice to the same
\* operation.  When handle_logs has returned, the created names are exactly
\* the defined names absent from the existing set, every defined name has
\* its retention policy, the deleted names are exactly the existing names
\* that are not defined when cleanup was requested, and every defined
\* group is there.
C20_CreateThenRetainThenClean ==
    LET defined == defined_log_group_names
        existing == existing_log_group_names
        creates == CallsOf({"create_log_group"})
        retains == CallsOf({"put_retention_policy"})
        deletes == CallsOf({"delete_log_group"})
    IN /\ \A k \in creates :
             /\ calls[k].arg \in defined \ existing
             /\ \A j \in creates : calls[j].arg = calls[k].arg => j = k
       /\ \A k \in retains :
             /\ calls[k].arg.logGroupName \in defined
             /\ calls[k].arg.retentionInDays = 7
             /\ \A j \in creates : j < k
             /\ calls[k].arg.logGroupName \notin existing =>
                   \E j \in creates : j < k /\ calls[j].arg = calls[k].arg.logGroupName
                                               /\ calls[j].res = "ok"
             /\ \A j \in retains : calls[j].arg = calls[k].arg => j = k
       /\ \A k \in deletes :
             /\ clean_stale
             /\ calls[k].arg \in existing \ defined
             /\ \A j \in creates \cup retains : j < k
             /\ \A j \in deletes : calls[j].arg = calls[k].arg => j = k
       /\ pc \in {"put_retention_policy", "_clean_stale_log_groups"} =>
             LogGroupsOf("create_log_group") = defined \ existing
       /\ pc = "_clean_stale_log_groups" =>
             LogGroupsOf("put_retention_policy") = defined
       /\ pc = After("handle_logs") =>
             /\ LogGroupsOf("create_log_group") = defined \ existing
             /\ LogGroupsOf("put_retention_policy") = defined
             /\ LogGroupsOf("delete_log_group") = IF clean_stale THEN existing \ defined ELSE {}
             /\ defined \subseteq rLogGroups

\* handle_logs has returned from a run with cleanup in which it created a
\* group, found another defined group existing and kept it, and deleted a
\* group that is not defined
C20_Witness ==
    /\ pc = After("handle_logs")
    /\ clean_stale
    /\ LogGroupsOf("create_log_group") # {}
    /\ defined_log_group_names \cap existing_log_group_names # {}
    /\ LogGroupsOf("delete_log_group") # {}
    /\ Cardinality(LogGroupsOf("put_retention_policy")) = 2

\* the streams _delete_log_streams was handed, under the name and group
\* of a delete_log_stream call
HandedStreams(arg) ==
    {FlatStreams(existing_logs)[k].log_stream :
        k \in {j \in 1..Len(FlatStreams(existing_logs)) :
                  /\ FlatStreams(existing_logs)[j].log_group_name = arg.logGroupName
                  /\ FlatStreams(existing_logs)[j].log_stream.logStreamName = arg.logStreamName}}

\* the stream's last event, or without one its creation, lies days_ago days
\* or more before now; a stream with neither timestamp is not old
OlderThanThreshold(log_stream) ==
    LET timestamp == IF log_stream.lastEventTimestamp # 0 THEN log_stream.lastEventTimestamp
                     ELSE log_stream.creationTime
    IN timestamp # 0 /\ timestamp <= utcnow - 24 * days_ago

\* C21: delete_log_stream is only called for a stream whose container id
\* (the last '/'-part of its name) is in the failed-container list and
\* whose last-event timestamp, or without one its creation timestamp, is
\* older than the days_ago threshold; never for a stream without both.
C21_OnlyOldFailedStreamsDeleted ==
    \A k \in CallsOf({"delete_log_stream"}) :
        /\ HandedStreams(calls[k].arg) # {}
        /\ Last(Split(calls[k].arg.logStreamName, "/")) \in Range(failed_container_ids)
        /\ \A log_stream \in HandedStreams(calls[k].arg) : OlderThanThreshold(log_stream)

\* C29: what _get_existing_logs returns holds, for each log group, the
\* streams of every page describe_log_streams returns for the group.
C29_StreamsOfEveryPage ==
    pc = "_get_failed_container_ids" =>
        \A k \in 1..Len(existing_logs) :
            existing_logs[k].log_streams = StreamsOfGroup(existing_logs[k].log_group_name)

\* the metric names of the services passed to create_metrics
PassedMetricNames ==
    {filtered_selected_services[k].metric.MetricName :
        k \in {j \in 1..Len(filtered_selected_services) : filtered_selected_services[j].metric.present}}

\* C22: the metrics create_metrics finds missing are metrics of the passed
\* services whose name the live metric list lacks, one entry per service
\* that configures such a metric; every put_metric_data call carries one
\* data point, of value 0, for the next of them; no step takes a metric
\* away, and no call is made of an operation that deletes one.
C22_OnlyMissingMetricsCreated ==
    /\ [][(pc = "create_metrics" /\ pc' = "_create_missing_metrics") =>
              /\ \A k \in 1..Len(missing_metrics') :
                    /\ missing_metrics'[k].MetricName \in PassedMetricNames
                    /\ missing_metrics'[k].MetricName \notin rMetrics
              /\ PassedMetricNames \ rMetrics = {missing_metrics'[k].MetricName : k \in 1..Len(missing_metrics')}]_vars
    /\ [](LET puts == ArgsOf("put_metric_data")
          IN /\ Len(puts) <= Len(missing_metrics)
             /\ \A k \in 1..Len(puts) :
                   /\ Len(puts[k]) = 1
                   /\ puts[k][1].Value = 0
                   /\ puts[k][1].MetricName = missing_metrics[k].MetricName)
    /\ [][rMetrics \subseteq rMetrics']_vars
    /\ [](\A k \in 1..Len(calls) : calls[k].op \notin {"delete_metric", "delete_metrics"})

\* a run that found one of two live metrics configured and created nothing
\* for it, after a first run that created the metric
C22_Witness ==
    /\ run = 2
    /\ pc = After("create_metrics")
    /\ MetricA \in PassedMetricNames
    /\ MetricA \in rMetrics
    /\ CallsOf({"list_metrics"}) # {}
    /\ CallsOf({"put_metric_data"}) = {}

\* a remote call of the run failed
SomeCallFailed == \E k \in 1..Len(calls) : calls[k].res # "ok"

\* C23: a deploy without --service-names whose configuration is valid and
\* whose remote calls all succeed ends without an exception, with the task
\* of every service of the loaded configuration registered and an
\* update_service call for every service.
C23_AllServicesWithoutNames ==
    (/\ ~names_given
     /\ pc \in {"return", "exit"}
     /\ raised # "AeropressException"
     /\ ~SomeCallFailed) =>
        /\ raised = "none"
        /\ \A k \in 1..Len(services) :
              services[k].serviceName # NoneStr =>
                  /\ \E j \in CallsOf({"register_task_definition"}) :
                        calls[j].arg.family = services[k].task.family
                  /\ \E j \in CallsOf({"update_service"}) :
                        /\ calls[j].arg.cluster = services[k].cluster
                        /\ calls[j].arg.service = services[k].serviceName

\* C24: _load_config raises AeropressException when there is no definition
\* under the config path or when the taskDefinition of some definition is
\* not the family of its own task, and the run then ends without a remote
\* call; otherwise (definitions without taskDefinition included) it returns
\* the definitions.
C24_InvalidConfigRaisesBeforeAnyCall ==
    LET invalid == \/ yaml_dicts = <<>>
                   \/ \E k \in 1..Len(yaml_dicts) :
                         /\ yaml_dicts[k].taskDefinition # NoneStr
                         /\ yaml_dicts[k].taskDefinition # yaml_dicts[k].task.family
    IN pc # "_load_config" =>
          IF invalid
          THEN /\ pc = "exit"
               /\ raised = "AeropressException"
               /\ calls = <<>>
               /\ services = <<>>
          ELSE /\ Len(services) = Len(yaml_dicts)
               /\ (pc = "deploy" => raised = "none")

\* _load_config has refused a configuration in which service b names the
\* family of another task, in front of a remote side with services
C24_Witness ==
    /\ pc = "exit"
    /\ raised = "AeropressException"
    /\ calls = <<>>
    /\ Len(yaml_dicts) = 3
    /\ yaml_dicts[3].taskDefinition = FamilyA
    /\ yaml_dicts[3].task.family = FamilyB
    /\ yaml_dicts[1].taskDefinition = NoneStr
    /\ rServices # {}

\* the definition of the files that selected_services[k] was loaded from
FileDefinition(k) ==
    CHOOSE definition \in Range(yaml_dicts) :
        /\ definition.serviceName = selected_services[k].serviceName
        /\ definition.task.family = selected_services[k].task.family

\* C26: the k-th register_task_definition call of a deploy run is for the
\* task of the k-th selected service; with an image URL every container
\* definition of the call has that URL as its image, without one each has
\* the image that the files declare for the container of that name.
C26_ImageUrlInEveryRegistration ==
    LET registrations == ArgsOf("register_task_definition")
    IN \A k \in 1..Len(registrations) :
          /\ k <= Len(selected_services)
          /\ registrations[k].family = selected_services[k].task.family
          /\ Len(registrations[k].containerDefinitions) =
                Len(FileDefinition(k).task.containerDefinitions)
          /\ \A c \in 1..Len(registrations[k].containerDefinitions) :
                /\ registrations[k].containerDefinitions[c].name =
                      FileDefinition(k).task.containerDefinitions[c].name
                /\ registrations[k].containerDefinitions[c].image =
                      IF image_url # NoneStr THEN image_url
                      ELSE FileDefinition(k).task.containerDefinitions[c].image

\* a finished run with an image URL that registered the two containers of
\* service a, declared with two different images, both with the URL
C26_Witness ==
    /\ pc = "return"
    /\ raised = "none"
    /\ image_url = ImageUrl
    /\ \E k \in CallsOf({"register_task_definition"}) :
          /\ calls[k].res = "ok"
          /\ calls[k].arg.family = FamilyA
          /\ Len(calls[k].arg.containerDefinitions) = 2
          /\ \A c \in 1..2 : calls[k].arg.containerDefinitions[c].image = ImageUrl
          /\ \E definition \in Range(yaml_dicts) :
                /\ definition.task.family = FamilyA
                /\ definition.task.containerDefinitions[1].image = ImageSidecar
                /\ definition.task.containerDefinitions[2].image = ImageDeclared

\* C25: a lister whose first response has no items and no token has made
\* exactly one remote call when it returns, and returns an empty result.
C25_EmptyFirstPageOneCall ==
    (pc = "return" /\ rItems = <<>>) =>
        /\ Len(calls) = 1
        /\ calls[1].op \in {"describe_alarms", "describe_log_groups", "list_metrics",
                             "describe_scaling_policies", "list_services", "list_task_definitions"}
        /\ calls[1].res = "ok"
        /\ existing_alarms = <<>>
        /\ existing_log_group_names = {}
        /\ existing_metrics = <<>>
        /\ existing_policies = <<>>
        /\ existing_services = <<>>
        /\ all_task_definitions = <<>>

\* the metric lister has returned from a listing without metrics
C25_Witness ==
    /\ pc = "return"
    /\ rItems = <<>>
    /\ Len(calls) = 1
    /\ calls[1].op = "list_metrics"
    /\ existing_metrics = <<>>


\* C27: service existence is judged per cluster; once the creation loop of
\* _create_missing_services is over, every configured service exists in its
\* own cluster, and update_service is only ever issued for a (cluster, name)
\* pair that exists
C27_ExistencePerCluster ==
    /\ pc \in AfterCreation =>
          \A n \in 1..Len(filtered_selected_services) :
              \E r \in rServices : ServiceKey(r) = ServiceKey(filtered_selected_services[n])
    /\ \A k \in CallsOf({"update_service"}) :
          \E r \in rServices : /\ r.cluster = calls[k].arg.cluster
                               /\ r.serviceName = calls[k].arg.service


\* C28: clean_stale_tasks terminates for every sequence of remote outcomes:
\* every run of the clean command comes to its return or ends with an error,
\* so no deregistration loop goes on for ever.
C28_CleanStaleTasksTerminates == <>(pc \in {"return", "exit"})


\* C30: the name check of _validate_log_definitions and the naming filter of
\* _get_existing_log_group_names agree: no name handle_logs is about to create
\* exists remotely, and no create_log_group call was issued for a log group
\* that existed already.
C30_NoCreateForExistingLogGroup ==
    /\ pc = "_create_missing_log_groups" => todo \cap rLogGroups = {}
    /\ \A k \in CallsOf({"create_log_group"}) :
          calls[k].res # "ResourceAlreadyExistsException"


\* C31: within one update_all run, every put_scaling_policy call for a
\* resource id is preceded by a register_scalable_target call for the same
\* resource id, and no put_scaling_policy is issued for a resource whose
\* scalable target was deregistered in that run.
C31_TargetRegisteredBeforePolicy ==
    \A k \in CallsOf({"put_scaling_policy"}) :
        /\ \E j \in 1..(k - 1) :
              /\ calls[j].op = "register_scalable_target"
              /\ calls[j].arg = calls[k].arg.ResourceId
              /\ calls[j].res = "ok"
        /\ \A j \in CallsOf({"deregister_scalable_target"}) :
              calls[j].arg # calls[k].arg.ResourceId

\* a run that deregistered the scalable target of one service and put a
\* policy for another
C31_Witness ==
    /\ \E k \in CallsOf({"put_scaling_policy"}) : calls[k].res = "ok"
    /\ \E j \in CallsOf({"deregister_scalable_target"}) : calls[j].res = "ok"


\* the PolicyARN an action naming policy_name has to resolve to for service_dict
DeclaredArn(policy_name, service_dict) ==
    Policy(policy_name, ResourceId(service_dict)).PolicyARN

\* C32: alarm actions are resolved against the policies listed after the
\* run's put_scaling_policy calls: an action of a service's alarm that names
\* a policy declared in the scale policies of that service resolves to the
\* non-empty ARN of that policy on the service's resource id, on a first
\* deploy too.
C32_DeclaredPoliciesResolve ==
    LET puts == ArgsOf("put_metric_alarm")
    IN \A k \in 1..Len(puts) :
          LET sd == PassedAlarmServices[k]
              declared == IF sd.scale.present THEN Range(sd.scale.policies) ELSE {}
          IN /\ \A j \in 1..Len(sd.alarm.OKActions) :
                   sd.alarm.OKActions[j] \in declared =>
                       /\ puts[k].OKActions[j] = DeclaredArn(sd.alarm.OKActions[j], sd)
                       /\ puts[k].OKActions[j] # NoneStr
             /\ \A j \in 1..Len(sd.alarm.AlarmActions) :
                   sd.alarm.AlarmActions[j] \in declared =>
                       /\ puts[k].AlarmActions[j] = DeclaredArn(sd.alarm.AlarmActions[j], sd)
                       /\ puts[k].AlarmActions[j] # NoneStr

\* a first deploy: every live policy was put by this run, and the alarm put
\* after them carries the ARNs of the two declared policies
C32_Witness ==
    /\ run = 1
    /\ rPolicies # {}
    /\ \A p \in rPolicies : \E k \in CallsOf({"put_scaling_policy"}) :
          calls[k].arg = p /\ calls[k].res = "ok"
    /\ \E k \in CallsOf({"put_metric_alarm"}) :
          /\ calls[k].res = "ok"
          /\ calls[k].arg.OKActions =
                <<Policy(PolicyDown, ResourceId([cluster |-> Cluster1, serviceName |-> NameA])).PolicyARN>>
          /\ calls[k].arg.AlarmActions =
                <<Policy(PolicyUp, ResourceId([cluster |-> Cluster1, serviceName |-> NameA])).PolicyARN>>


\* the calls that remove something on the remote side
RemovalOps ==
    {"delete_log_group", "delete_alarms", "delete_scaling_policy", "delete_log_stream",
     "deregister_task_definition", "deregister_scalable_target"}

\* C33: a deploy run started from the command line never issues
\* delete_log_group, delete_alarms, delete_scaling_policy or
\* deregister_task_definition and never enters a clean-up function, whatever
\* the configuration and the remote state: clean_stale is false on that
\* path. The only removal it issues is deregister_scalable_target, for the
\* resource id of a passed service without a scale configuration.
C33_DeployRemovesNothing ==
    /\ pc \notin {"_load_config", "deploy"} => ~clean_stale
    /\ pc \notin {"_clean_stale_log_groups", "_clean_stale_policies", "_clean_stale_alarms"}
    /\ \A k \in CallsOf(RemovalOps) :
          /\ calls[k].op = "deregister_scalable_target"
          /\ \E n \in 1..Len(filtered_selected_services) :
                /\ ~filtered_selected_services[n].scale.present
                /\ calls[k].arg = ResourceId(filtered_selected_services[n])

\* a completed deploy that deregistered a scalable target and left the
\* alarm and the policy of an earlier deployment, which no service defines
C33_Witness ==
    /\ pc = "return"
    /\ raised = "none"
    /\ \E k \in CallsOf({"deregister_scalable_target"}) : calls[k].res = "ok"
    /\ \E a \in rAlarms : a.AlarmName = AlarmEcsOld
    /\ \E p \in rPolicies : p.PolicyName = <<"o", "l", "d">>
    /\ GroupOther \in rLogGroups


\* the batches of a sequence of batches put one after the other
RECURSIVE Concatenated(_)
Concatenated(batches) ==
    IF batches = <<>> THEN <<>> ELSE Head(batches) \o Concatenated(Tail(batches))

\* C34: the batches sent to describe_services and to
\* describe_container_instances partition their input: put one after the
\* other in call order they are the start of the input list and, once the
\* loop is over, the whole of it; no call is made with an empty batch.
C34_BatchesPartitionInput ==
    LET service_batches == ArgsOf("describe_services")
        instance_batches == ArgsOf("describe_container_instances")
    IN /\ IsPrefix(Concatenated(service_batches), rItems)
       /\ IsPrefix(Concatenated(instance_batches), container_instance_ids)
       /\ (pc = "return" /\ raised = "none") =>
             /\ Concatenated(service_batches) = rItems
             /\ Concatenated(instance_batches) = container_instance_ids
       /\ \A k \in CallsOf({"describe_services", "describe_container_instances"}) :
             calls[k].arg # <<>>


\* C35: when the clean subcommand is invoked with both --stale-tasks and
\* --stale-log-streams, both cleanups are performed in that invocation: a
\* run that returned without an error has listed the task definitions and
\* has listed the log streams.
C35_BothCleanupsPerformed ==
    (/\ subparser_name = "clean"
     /\ clean_stale_tasks
     /\ clean_stale_log_streams
     /\ pc = "return"
     /\ raised = "none") =>
        /\ CallsOf({"list_task_definitions"}) # {}
        /\ CallsOf({"describe_log_streams"}) # {}


\* the positions of the loaded definitions whose task has the family asked for
MatchingTasks == {k \in 1..Len(services) : services[k].task.family = task_definition}

\* C36: the register subcommand registers only the task whose family equals
\* --task-definition, the first match of the loaded configuration, with
\* clean-up disabled; when no loaded task has that family it issues no
\* remote call and returns without raising.
C36_RegisterFirstMatchOnly ==
    /\ Cardinality(CallsOf({"register_task_definition"})) <= 1
    /\ \A k \in CallsOf({"register_task_definition"}) :
          /\ MatchingTasks # {}
          /\ calls[k].arg = TaskDefinitionRequest(
                 services[CHOOSE n \in MatchingTasks : \A j \in MatchingTasks : n <= j].task)
    /\ CallsOf(RemovalOps) = {}
    /\ pc \notin {"_clean_stale_log_groups", "_clean_stale_policies", "_clean_stale_alarms"}
    /\ pc \notin {"_load_config", "register", "return", "exit"} => ~clean_stale
    /\ (services # <<>> /\ MatchingTasks = {}) =>
          /\ calls = <<>>
          /\ raised = "none"
          /\ pc \in {"register", "return"}

\* a completed run that registered the first of two loaded tasks of the
\* family asked for, the two differing in their log group
C36_Witness ==
    /\ pc = "return"
    /\ raised = "none"
    /\ Cardinality(MatchingTasks) = 2
    /\ \E k \in CallsOf({"register_task_definition"}) :
          /\ calls[k].res = "ok"
          /\ calls[k].arg = TaskDefinitionRequest(services[1].task)
          /\ calls[k].arg # TaskDefinitionRequest(services[2].task)

====
